---------------------------- MODULE Spec2Model ----------------------------
(***************************************************************************)
(* A model of wiktfinnish/inflect.py: the pattern template interpreter     *)
(* (process_template), the inflection dispatcher (inflect_using), the      *)
(* possessive and clitic appliers, the nominal and verbal facades and the  *)
(* entry point inflect, with the process-global set undef_decl_warned.     *)
(*                                                                         *)
(* A Python string is a sequence of one-character strings, a Python dict   *)
(* a function from keys to strings.  The integer key k of a dict is the    *)
(* key "#k", the string key "k" is "k": the two stay distinct, as they are *)
(* in Python.  None is the value NONE.                                     *)
(***************************************************************************)
EXTENDS Naturals, Sequences, FiniteSets, TLC

(***************************************************************************)
(* Strings and dicts                                                       *)
(***************************************************************************)
NONE == <<"None">>

EMPTY_CHAR == "EMPTY_CHAR"

Get(d, k, default) == IF k \in DOMAIN d THEN d[k] ELSE default

EmptyDict == [k \in {} |-> <<>>]

IntKey(x) == "#" \o x

Last(s) == s[Len(s)]

Front(s) == SubSeq(s, 1, Len(s) - 1)

\* s[:-n] of Python for n >= 1
DropLast(s, n) == IF Len(s) <= n THEN <<>> ELSE SubSeq(s, 1, Len(s) - n)

\* s[-n:] of Python for n >= 1
TakeLast(s, n) == IF Len(s) <= n THEN s ELSE SubSeq(s, Len(s) - n + 1, Len(s))

EndsWith(s, suffix) == Len(s) >= Len(suffix) /\ TakeLast(s, Len(suffix)) = suffix

StartsWith(s, prefix) == Len(s) >= Len(prefix) /\ SubSeq(s, 1, Len(prefix)) = prefix

\* Python's  p in s  for strings: p is a contiguous part of s
IsSubstr(p, s) ==
  \E i \in 0..Len(s) : i + Len(p) <= Len(s) /\ SubSeq(s, i + 1, i + Len(p)) = p

\* "".join(parts): parts is a list of strings
RECURSIVE Join(_)
Join(parts) == IF parts = <<>> THEN <<>> ELSE Head(parts) \o Join(Tail(parts))

\* list(x for x in v)
Chars(v) == [i \in 1..Len(v) |-> <<v[i]>>]

Member(x, list) == \E i \in 1..Len(list) : list[i] = x

NoDuplicates(list) == \A i, j \in 1..Len(list) : list[i] = list[j] => i = j

Digits == {"0", "1", "2", "3", "4", "5", "6", "7", "8", "9"}

Lower(c) ==
  CASE c = "A" -> "a"
    [] c = "O" -> "o"
    [] c = "U" -> "u"
    [] c = "D" -> "d"
    [] c = "N" -> "n"
    [] OTHER -> c

(***************************************************************************)
(* Vowel harmony utilities                                                 *)
(***************************************************************************)
\* re.search("([aouAOU])[^yäöYÄÖ]*$", word)
needs_aou(word) ==
  \E i \in 1..Len(word) :
     /\ word[i] \in {"a", "o", "u", "A", "O", "U"}
     /\ \A j \in (i + 1)..Len(word) : word[j] \notin {"y", "ä", "ö", "Y", "Ä", "Ö"}

word_to_aae(word) == IF needs_aou(word) THEN <<"a">> ELSE <<"ä">>

\* The (vowel, letters pronounced with it) pairs, in the order they are tried
VowelClasses ==
  << <<"a", {"a", "/", "+", "£"}>>,
     <<"e", {"e", "é", "b", "c", "ç", "d", "g", "p", "t", "v", "w", "z", "&", "*", ":", "."}>>,
     <<"o", {"o", "h", "k", "€", "å"}>>,
     <<"ä", {"ä", "f", "l", "m", "n", "r", "s", "x", "§"}>>,
     <<"ö", {"ö"}>>,
     <<"i", {"i", "j", "%", "$"}>>,
     <<"u", {"u", "q", ","}>>,
     <<"y", {"y", "ü"}>> >>

Pronounced(c) == \E k \in 1..Len(VowelClasses) : Lower(c) \in VowelClasses[k][2]

ClassVowel(c) ==
  VowelClasses[CHOOSE k \in 1..Len(VowelClasses) :
                 /\ Lower(c) \in VowelClasses[k][2]
                 /\ \A m \in 1..(k - 1) : Lower(c) \notin VowelClasses[m][2]][1]

\* The last character of the word that has a pronunciation decides; "e" if none
last_char_to_vowel(word) ==
  IF \E i \in 1..Len(word) : Pronounced(word[i])
  THEN LET i == CHOOSE i \in 1..Len(word) :
                  /\ Pronounced(word[i])
                  /\ \A j \in (i + 1)..Len(word) : ~Pronounced(word[j])
       IN ClassVowel(word[i])
  ELSE "e"

last_char_to_aou(word) ==
  IF last_char_to_vowel(word) \in {"a", "o", "u"} THEN <<"a">> ELSE <<"ä">>

(***************************************************************************)
(* process_template: the interpreter state is the two stacks parts and     *)
(* delparts (lists of strings, one character each unless a whole argument  *)
(* value was appended) and ok, FALSE once the evaluation has returned None.*)
(***************************************************************************)
PTStart == [parts |-> <<>>, delparts |-> <<>>, ok |-> TRUE]

PTFail(st) == [st EXCEPT !.ok = FALSE]

PTAppend(st, piece) == [st EXCEPT !.parts = Append(st.parts, piece)]

Vowels == {"a", "e", "i", "o", "u", "y", "ä", "ö"}

AllVowels == {"a", "e", "i", "o", "u", "y", "å", "ä", "ö",
              "A", "E", "I", "O", "U", "Y", "Å", "Ä", "Ö"}

\* x.isdigit(): slot x, under its integer key first, then its string key
OpDigit(x, st, args) ==
  LET v0 == IF IntKey(x) \in DOMAIN args THEN args[IntKey(x)] ELSE Get(args, x, <<>>)
      v1 == IF v0 = <<"(", "'", ")">> THEN <<>> ELSE v0
      nine == IF x # "9" THEN st
              ELSE IF "par_sg_a" \in DOMAIN args THEN PTAppend(st, args["par_sg_a"])
              ELSE IF st.delparts = <<>> THEN PTFail(st)
              ELSE PTAppend(st, Last(st.delparts))
      v == IF x = "3" /\ v1 = <<>> THEN <<EMPTY_CHAR>> ELSE v1
  IN IF ~nine.ok THEN nine
     ELSE [nine EXCEPT !.parts = nine.parts \o Chars(v)]

\* "@": the illative vowel
OpAt(st, args, ill_sg_vowel) ==
  IF ill_sg_vowel # NONE THEN PTAppend(st, ill_sg_vowel)
  ELSE LET p == Join(st.parts \o st.delparts)
       IN IF \E i \in 1..Len(p) : p[i] \in AllVowels
          THEN LET i == CHOOSE i \in 1..Len(p) :
                          /\ p[i] \in AllVowels
                          /\ \A j \in (i + 1)..Len(p) : p[j] \notin AllVowels
               IN PTAppend(st, <<Lower(p[i])>>)
          ELSE IF \E i \in 1..Len(p) : p[i] \in {"é", "É"}
          THEN PTAppend(st, <<"e">>)
          ELSE IF p # <<>> THEN PTAppend(st, <<last_char_to_vowel(<<Last(p)>>)>>)
          ELSE PTFail(st)

OpA(st, args) ==
  LET a == Get(args, "par_sg_a", NONE)
  IN IF a # NONE /\ a # <<>> THEN PTAppend(st, a)
     ELSE PTAppend(st, word_to_aae(Join(st.parts \o st.delparts)))

OpO(st) ==
  IF needs_aou(Join(st.parts \o st.delparts)) THEN PTAppend(st, <<"o">>)
  ELSE PTAppend(st, <<"ö">>)

OpU(st) ==
  IF needs_aou(Join(st.parts \o st.delparts)) THEN PTAppend(st, <<"u">>)
  ELSE PTAppend(st, <<"y">>)

OpD(st) ==
  LET p == Join(st.parts)
  IN IF p = <<>> THEN PTFail(st)
     ELSE IF Last(p) \in {"r", "n", "m", "l"} THEN PTAppend(st, <<Last(p)>>)
     ELSE PTAppend(st, <<"d">>)

\* "I": the previously removed character, or "e" if it was "i"
OpI(st) ==
  IF st.delparts = <<>> THEN PTFail(st)
  ELSE IF Last(st.delparts) = <<"i">> THEN PTAppend(st, <<"e">>)
  ELSE PTAppend(st, Last(st.delparts))

\* "-": drop last, move to delparts so it counts for gradation
OpMinus(st) ==
  IF st.parts = <<>> THEN PTFail(st)
  ELSE LET p == Last(st.parts)
       IN IF ~IsSubstr(p, <<"a", "e", "i", "o", "u", "y", "ä", "ö", "p">>)
          THEN PTFail([st EXCEPT !.parts = Front(st.parts)])
          ELSE [st EXCEPT !.parts = Front(st.parts),
                          !.delparts = Append(st.delparts, p)]

\* "/": drop second to last
OpSlash(st) ==
  IF Len(st.parts) < 2 THEN PTFail(st)
  ELSE LET p == Last(st.parts)
           p2 == Last(Front(st.parts))
           vowels == <<"a", "e", "i", "o", "u", "y", "ä", "ö">>
       IN IF ~IsSubstr(p, vowels) THEN PTFail([st EXCEPT !.parts = Front(st.parts)])
          ELSE IF ~IsSubstr(p2, vowels)
          THEN PTFail([st EXCEPT !.parts = Front(Front(st.parts))])
          ELSE [st EXCEPT !.parts = Append(Front(Front(st.parts)), p)]

\* One iteration of the loop over the template's characters
PTStep(x, st, args, ill_sg_vowel) ==
  CASE x \in Digits -> OpDigit(x, st, args)
    [] x = "@" -> OpAt(st, args, ill_sg_vowel)
    [] x = "A" -> OpA(st, args)
    [] x = "O" -> OpO(st)
    [] x = "U" -> OpU(st)
    [] x = "D" -> OpD(st)
    [] x = "I" -> OpI(st)
    [] x = "-" -> OpMinus(st)
    [] x = "/" -> OpSlash(st)
    [] OTHER -> PTAppend(st, <<x>>)

\* The final pass: a doubled vowel straddling EMPTY_CHAR gets an apostrophe,
\* every other EMPTY_CHAR is removed
EmptyCharPass(v) ==
  LET W == {"a", "e", "i", "o", "u", "y", "ä", "ö", "A", "E", "I", "O", "U", "Y", "Ä", "Ö"}
      apostrophe(i) == /\ i >= 3 /\ i < Len(v)
                       /\ v[i - 1] \in W /\ v[i + 1] = v[i - 1] /\ v[i - 2] \in W
      piece(i) == IF v[i] # EMPTY_CHAR THEN <<v[i]>>
                  ELSE IF apostrophe(i) THEN <<"'">> ELSE <<>>
  IN Join([i \in 1..Len(v) |-> piece(i)])

PTResult(st) == IF st.ok THEN EmptyCharPass(Join(st.parts)) ELSE NONE

RECURSIVE PTRun(_, _, _, _)
PTRun(template, st, args, ill_sg_vowel) ==
  IF ~st.ok \/ template = <<>> THEN st
  ELSE PTRun(Tail(template), PTStep(Head(template), st, args, ill_sg_vowel),
             args, ill_sg_vowel)

\* The string the template yields, or NONE
process_template(template, args, ill_sg_vowel) ==
  PTResult(PTRun(template, PTStart, args, ill_sg_vowel))

(***************************************************************************)
(* The static tables of nounspecs, verbspecs and formnames.  inflect.py    *)
(* only reads them; the paradigms below are a small table of the same      *)
(* shape: nargs (0: not declared), split (start slot, sub-paradigm pairs), *)
(* default, ignore-extra-args, and the templates of each form, a list per  *)
(* form ("<form>-poss" and "<form>-clitic" are the variants of a form).    *)
(***************************************************************************)
Decl(nargs, forms) ==
  [nargs |-> nargs, ignore_extra_args |-> FALSE, split |-> <<>>,
   default |-> EmptyDict, forms |-> forms]

decl_name_map == ("fi-decl-kala" :> "fi-decl-koira")

noun_decls ==
  ("fi-decl-koira" :> Decl(4,
      ("" :> <<<<"1", "2", "4">>>>) @@
      ("gen-sg" :> <<<<"1", "3", "4", "n">>>>) @@
      ("ill-sg" :> <<<<"1", "2", "4", "@", "n">>>>) @@
      ("tra-sg" :> <<<<"1", "3", "4", "k", "s", "i">>>>) @@
      ("tra-sg-poss" :> <<<<"1", "3", "4", "k", "s", "e">>>>) @@
      ("gen-pl" :> <<<<"1", "2", "-", "O", "j", "e", "n">>, <<"1", "2", "4", "-", "i", "e", "n">>, <<"1", "2", "4", "-", "i", "n">>>>) @@
      ("cmt" :> <<<<"1", "2", "4", "-", "i", "n", "e">>>>) @@
      ("comp" :> <<<<"1", "3", "4", "m", "p", "i">>>>) @@
      ("sup" :> <<<<"1", "2", "4", "-", "i", "n">>, <<"1", "2", "4", "-", "i", "n">>>>) @@
      ("manner" :> <<<<"1", "3", "4", "s", "t", "i">>>>))) @@
  ("fi-decl-valo" :> [Decl(5,
      ("" :> <<<<"1", "2", "4">>>>) @@
      ("gen-sg" :> <<<<"1", "3", "4", "n">>>>) @@
      ("ill-sg" :> <<<<"1", "2", "4", "@", "n">>>>) @@
      ("tra-sg" :> <<<<"1", "3", "4", "k", "s", "i">>>>) @@
      ("gen-pl" :> <<<<"1", "2", "4", "j", "e", "n">>>>) @@
      ("cmt" :> <<<<"1", "2", "4", "i", "n", "e">>>>))
      EXCEPT !.default = ("pos" :> <<"n", "o", "u", "n">>)]) @@
  ("fi-decl-palvelu" :> Decl(2,
      ("" :> <<<<"1">>>>) @@
      ("gen-sg" :> <<<<"1", "n">>>>) @@
      ("ill-sg" :> <<<<"1", "@", "n">>, <<"1", "h", "@", "n">>>>) @@
      ("tra-sg" :> <<<<"1", "k", "s", "i">>>>) @@
      ("gen-pl" :> <<<<"1", "j", "e", "n">>, <<"1", "-", "i", "d", "e", "n">>>>) @@
      ("cmt" :> <<<<"1", "i", "n", "e">>>>))) @@
  ("fi-decl-maa-dot" :> [Decl(3,
      ("" :> <<<<"1">>>>) @@
      ("-clitic" :> <<<<"1", ":">>>>) @@
      ("gen-sg" :> <<<<"1", ":", "n">>>>) @@
      ("ill-sg" :> <<<<"1", ":", "h", "@", "n">>>>) @@
      ("gen-pl" :> <<<<"1", ":", "i", "d", "e", "n">>>>))
      EXCEPT !.ignore_extra_args = TRUE]) @@
  ("fi-decl-vanhempi" :> Decl(5,
      ("" :> <<<<"1", "m", "p", "i">>>>) @@
      ("gen-sg" :> <<<<"1", "m", "m", "5", "n">>>>) @@
      ("ill-sg" :> <<<<"1", "m", "p", "5", "5", "n">>>>) @@
      ("tra-sg" :> <<<<"1", "m", "m", "5", "k", "s", "i">>>>) @@
      ("gen-pl" :> <<<<"1", "m", "p", "i", "e", "n">>>>))) @@
  ("fi-decl-sisin" :> Decl(5,
      ("" :> <<<<"1", "i", "n">>>>) @@
      ("gen-sg" :> <<<<"1", "i", "m", "m", "5", "n">>>>) @@
      ("ill-sg" :> <<<<"1", "i", "m", "p", "5", "5", "n">>>>) @@
      ("gen-pl" :> <<<<"1", "i", "m", "p", "i", "e", "n">>>>))) @@
  ("fi-decl-pron" :> Decl(0, [f \in {} |-> <<>>])) @@
  ("fi-decl-valo-koira" :> [Decl(0, [f \in {} |-> <<>>])
      EXCEPT !.split = <<1, "fi-decl-valo", 6, "fi-decl-koira">>])

verb_conjs ==
  ("fi-conj-saada" :> Decl(2,
      ("inf1" :> <<<<"1", "d", "2">>>>) @@
      ("pres-1sg" :> <<<<"1", "n">>>>) @@
      ("pres-part" :> <<<<"1", "v", "2">>>>) @@
      ("inf1-long" :> <<<<"1", "d", "2", "k", "s", "e">>>>))) @@
  ("fi-conj-kumajaa" :> Decl(2,
      ("inf1" :> <<<<"1", "j", "2", "2">>>>) @@
      ("pres-1sg" :> <<<<"1", "j", "2", "n">>>>) @@
      ("pres-part" :> <<<<"1", "j", "2", "v", "2">>>>) @@
      ("inf1-long" :> <<<<"1", "j", "2", "2", "k", "s", "e">>>>)))

possessive_suffixes ==
  ("1s" :> <<<<"n", "i">>>>) @@
  ("3x" :> <<<<"n", "s", "A">>, <<"@", "n">>>>)

VERB_FORMS == {"", "inf1", "pres-1sg", "pres-part", "inf1-long", "inf5"}

COMPARATIVE_FORMS == {"", "comp", "sup", "hkO", "manner", "comp-manner", "sup-manner"}

CASE_FORMS == {"", "gen-sg", "ill-sg", "tra-sg", "gen-pl", "cmt"}

POSSESSIVE_FORMS == {"", "1s", "3x"}

CLITIC_FORMS == {"", "kin", "kOs"}

\* The characters of a clitic code, which add_clitic reads as a template
CliticChars ==
  ("kin" :> <<"k", "i", "n">>) @@ ("kOs" :> <<"k", "O", "s">>) @@ ("__dummy__" :> <<"_", "_", "d", "u", "m", "m", "y", "_", "_">>)

\* Set of all valid conjugation and declension names
CONJ_DECL_NAMES == DOMAIN decl_name_map \cup DOMAIN noun_decls \cup DOMAIN verb_conjs

\* The entries of argument_name_map for the forms above
argument_name_map ==
  ("inf1-long" :> <<"inf1_longa">>) @@
  ("" :> <<"nom_sg", "1s", "word">>) @@
  ("gen-sg" :> <<"2s">>) @@
  ("ill-sg" :> <<"7s">>) @@
  ("tra-sg" :> <<"12s">>) @@
  ("gen-pl" :> <<"2p">>) @@
  ("cmt" :> <<"15p", "com_pl">>)

\* re.sub("-", "_", form) for the forms above
FormArg(form) ==
  CASE form = "gen-sg" -> "gen_sg"
    [] form = "ill-sg" -> "ill_sg"
    [] form = "tra-sg" -> "tra_sg"
    [] form = "gen-pl" -> "gen_pl"
    [] form = "pres-1sg" -> "pres_1sg"
    [] form = "pres-part" -> "pres_part"
    [] form = "inf1-long" -> "inf1_long"
    [] form = "comp-manner" -> "comp_manner"
    [] form = "sup-manner" -> "sup_manner"
    [] OTHER -> form

\* form.endswith("-sg"), form.endswith("-pl")
EndsSg(form) == form \in {"gen-sg", "ill-sg", "tra-sg"}

EndsPl(form) == form \in {"gen-pl"}

\* str(k) and int(x) for the slot numbers
NumStr ==
  <<"1", "2", "3", "4", "5", "6", "7", "8", "9", "10",
    "11", "12", "13", "14", "15", "16", "17", "18", "19", "20">>

Str(k) == NumStr[k]

IsSlotKey(x) == \E k \in 1..Len(NumStr) : x = NumStr[k] \/ x = IntKey(NumStr[k])

SlotOf(x) == CHOOSE k \in 1..Len(NumStr) : x = NumStr[k] \/ x = IntKey(NumStr[k])

(***************************************************************************)
(* clean_exception and the string operations add_exception uses.  The      *)
(* exception values of the model hold no backtick, "<", right quote or     *)
(* " abbr. ", so the substitutions for these leave every value as it is    *)
(* and are not written out.                                                *)
(***************************************************************************)
\* re.sub of a literal pattern by the empty string
RECURSIVE RemoveAll(_, _)
RemoveAll(s, pat) ==
  IF s = <<>> THEN <<>>
  ELSE IF StartsWith(s, pat) THEN RemoveAll(SubSeq(s, Len(pat) + 1, Len(s)), pat)
  ELSE <<Head(s)>> \o RemoveAll(Tail(s), pat)

\* The length of the longest prefix of s with no character of stop
RECURSIVE SpanLen(_, _)
SpanLen(s, stop) ==
  IF s = <<>> \/ Head(s) \in stop THEN 0 ELSE 1 + SpanLen(Tail(s), stop)

\* re.sub(r"\[\[[^]|]*\|([^]]*)\]\]", r"\1", v)
RECURSIVE UnlinkPiped(_)
UnlinkPiped(s) ==
  IF s = <<>> THEN <<>>
  ELSE IF StartsWith(s, <<"[", "[">>)
  THEN LET rest == SubSeq(s, 3, Len(s))
           a == SpanLen(rest, {"]", "|"})
           text == SubSeq(rest, a + 2, Len(rest))
           b == SpanLen(text, {"]"})
           after == SubSeq(text, b + 1, Len(text))
       IN IF a < Len(rest) /\ rest[a + 1] = "|" /\ StartsWith(after, <<"]", "]">>)
          THEN SubSeq(text, 1, b) \o UnlinkPiped(SubSeq(after, 3, Len(after)))
          ELSE <<Head(s)>> \o UnlinkPiped(Tail(s))
  ELSE <<Head(s)>> \o UnlinkPiped(Tail(s))

\* re.sub(c + c + "+", "", v): every run of two or more c goes
RemoveRuns(s, c) ==
  LET inRun(i) == /\ s[i] = c
                  /\ \/ (i > 1 /\ s[i - 1] = c)
                     \/ (i < Len(s) /\ s[i + 1] = c)
  IN Join([i \in 1..Len(s) |-> IF inRun(i) THEN <<>> ELSE <<s[i]>>])

\* re.sub(r"\s+", " ", v)
CollapseSpaces(s) ==
  Join([i \in 1..Len(s) |->
          IF s[i] = " " /\ i > 1 /\ s[i - 1] = " " THEN <<>> ELSE <<s[i]>>])

\* v.strip()
RECURSIVE Strip(_)
Strip(s) ==
  IF s = <<>> THEN s
  ELSE IF Head(s) = " " THEN Strip(Tail(s))
  ELSE IF Last(s) = " " THEN Strip(Front(s))
  ELSE s

clean_exception(v) ==
  Strip(CollapseSpaces(RemoveRuns(
    RemoveAll(RemoveAll(UnlinkPiped(v), <<"[", "[">>), <<"]", "]">>), "'")))

\* v.split(sep)
RECURSIVE Split(_, _)
Split(s, sep) ==
  LET n == SpanLen(s, {sep})
  IN IF n = Len(s) THEN <<s>>
     ELSE <<SubSeq(s, 1, n)>> \o Split(SubSeq(s, n + 2, Len(s)), sep)

\* The dash U+2013 that marks a form as missing
EN_DASH == "EN_DASH"

NonWordChars == {" ", ",", "-", EN_DASH, "(", ")", "[", "]", "|", "'", "/", "*", ":"}

Pronouns == {<<"m", "i", "n", "u", "n">>, <<"s", "i", "n", "u", "n">>, <<"h", "ä", "n", "e", "n">>, <<"m", "e", "i", "d", "ä", "n">>, <<"t", "e", "i", "d", "ä", "n">>, <<"h", "e", "i", "d", "ä", "n">>}

\* re.sub(r"\b(minun|sinun|hänen|meidän|teidän|heidän)\b", "", v)
RECURSIVE RemovePronounsFrom(_, _)
RemovePronounsFrom(s, i) ==
  IF i > Len(s) THEN <<>>
  ELSE LET here == {w \in Pronouns :
                      /\ i + Len(w) - 1 <= Len(s)
                      /\ SubSeq(s, i, i + Len(w) - 1) = w
                      /\ (i = 1 \/ s[i - 1] \in NonWordChars)
                      /\ (i + Len(w) > Len(s) \/ s[i + Len(w)] \in NonWordChars)}
       IN IF here # {} THEN RemovePronounsFrom(s, i + Len(CHOOSE w \in here : TRUE))
          ELSE <<s[i]>> \o RemovePronounsFrom(s, i + 1)

RemovePronouns(v) == RemovePronounsFrom(v, 1)

(***************************************************************************)
(* inflect_using                                                           *)
(***************************************************************************)
HasSlot(args, k) == IntKey(Str(k)) \in DOMAIN args \/ Str(k) \in DOMAIN args

\* args.get(k) or args.get(str(k)) or ""
SlotOr(args, k) ==
  IF Get(args, IntKey(Str(k)), <<>>) # <<>> THEN args[IntKey(Str(k))]
  ELSE Get(args, Str(k), <<>>)

\* args[k] = v on a dict
SetKey(args, k, v) == (k :> v) @@ args

\* The end of  range(nargs + 1, 20)
SlotRangeEnd == 20

\* The value of i after the loop over range(nargs + 1, 20) and  i -= 1
LastExtraSlot(args, nargs) ==
  LET missing == {i \in (nargs + 1)..(SlotRangeEnd - 1) : ~HasSlot(args, i)}
  IN IF missing = {} THEN SlotRangeEnd - 2
     ELSE (CHOOSE i \in missing : \A j \in missing : i <= j) - 1

\* More arguments than the declension takes: all but the last go to the stem
MergeExtraArgs(args, i) ==
  LET stem0 == Join([j \in 1..(i - 1) |-> SlotOr(args, j)])
      aae0 == SlotOr(args, i)
      stem == IF aae0 \in {<<"a">>, <<"ä">>} THEN stem0 ELSE stem0 \o aae0
      aae == IF aae0 \in {<<"a">>, <<"ä">>} THEN aae0 ELSE word_to_aae(stem)
      gone == {IntKey(Str(j)) : j \in 1..i} \cup {Str(j) : j \in 1..i}
      kept == [k \in DOMAIN args \ gone |-> args[k]]
  IN SetKey(SetKey(kept, IntKey("1"), stem), IntKey("2"), aae)

\* The args inflect_using goes on with
LocalArgs(decl, args) ==
  LET nargs == decl.nargs
  IN IF nargs = 0 THEN args
     ELSE IF nargs > 1 /\ ~HasSlot(args, nargs)
     THEN SetKey(args, IntKey(Str(nargs)), word_to_aae(SlotOr(args, 1)))
     ELSE LET i == LastExtraSlot(args, nargs)
          IN IF i > nargs /\ nargs = 2 /\ ~decl.ignore_extra_args
             THEN MergeExtraArgs(args, i)
             ELSE args

\* A wrong reconciliation: the default and the merge are made in the caller's dict
ReconcileInPlace(decl, args) ==
  [args |-> LocalArgs(decl, args), caller |-> LocalArgs(decl, args)]

\* Slot reconciliation: args is copied before it is changed, so the dict of
\* the caller (caller) keeps what it held
ReconcileArgs(decl, args) ==
  [args |-> LocalArgs(decl, args), caller |-> args]

\* new_args of the span [start, end) of a split declension
SpanArgs(decls, args, start, end, new_name, last_part) ==
  LET slots == {x \in DOMAIN args : IsSlotKey(x)}
      inSpan == {k \in start..(end - 1) : \E x \in slots : SlotOf(x) = k}
      named == {x \in DOMAIN args \ slots :
                  last_part \/ x \notin {"par_sg_a", "ill_sg_vowel", "ill_sg_vowel2"}}
      moved == [y \in {Str(k - start + 1) : k \in inSpan} |->
                  LET k == CHOOSE k \in inSpan : Str(k - start + 1) = y
                  IN IF Str(k) \in DOMAIN args THEN args[Str(k)]
                     ELSE args[IntKey(Str(k))]]
      new_args == moved @@ [x \in named |-> args[x]]
      defargs == IF new_name \in DOMAIN decls THEN decls[new_name].default
                 ELSE EmptyDict
  IN new_args @@ defargs

\* results.append(v) unless v is there
AddUnique(results, v) == IF Member(v, results) THEN results ELSE Append(results, v)

\* The last word of an alternative that holds a space
LastWord(v) == IF \E i \in 1..Len(v) : v[i] = " " THEN Last(Split(v, " ")) ELSE v

\* An alternative in parentheses loses them
Unparen(v) ==
  IF StartsWith(v, <<"(">>) /\ EndsWith(v, <<")">>) THEN SubSeq(v, 2, Len(v) - 1) ELSE v

\* What the cleaned alternative v comes to: "return" leaves add_exception,
\* "continue" skips the alternative
ExceptionForm(v, form, use_poss) ==
  IF v = <<>> \/ v = <<"-">> \/ v = <<EN_DASH>> THEN [kind |-> "return", v |-> <<>>]
  ELSE IF use_poss /\ form \in {"tra-sg", "tra-pl"}
  THEN IF ~EndsWith(v, <<"k", "s", "i">>) THEN [kind |-> "continue", v |-> <<>>]
       ELSE [kind |-> "add", v |-> Front(v) \o <<"e">>]
  ELSE IF use_poss /\ form \in {"inf5", "inf1-long", "cmt"}
  THEN IF TakeLast(v, 2) \in {<<"a", "n">>, <<"e", "n">>, <<"i", "n">>, <<"o", "n">>, <<"u", "n">>, <<"y", "n">>, <<"ä", "n">>, <<"ö", "n">>}
       THEN [kind |-> "add", v |-> DropLast(v, 2)]
       ELSE IF EndsWith(v, <<"n", "s", "a">>) \/ EndsWith(v, <<"n", "s", "ä">>)
       THEN [kind |-> "add", v |-> DropLast(v, 3)]
       ELSE [kind |-> "add", v |-> v]
  ELSE IF use_poss /\ form \in {"gen-sg", "gen-pl", "ill-sg", "ill-pl", "ins-pl", "nom-pl"}
  THEN IF Last(v) \in {"n", "t"} THEN [kind |-> "add", v |-> Front(v)]
       ELSE [kind |-> "add", v |-> v]
  ELSE [kind |-> "add", v |-> v]

\* What one comma-separated alternative of an exception value comes to
ExceptionAlt(alt, form, use_poss) ==
  ExceptionForm(Unparen(LastWord(Strip(alt))), form, use_poss)

RECURSIVE ExceptionAlts(_, _, _, _)

\* The loop of add_exception after the alternative a: rest is still to do
AfterExceptionAlt(a, rest, results, form, use_poss) ==
  IF a.kind = "return" THEN results
  ELSE ExceptionAlts(rest, IF a.kind = "continue" THEN results
                           ELSE AddUnique(results, a.v), form, use_poss)

\* The loop of add_exception over v.split(",")
ExceptionAlts(alts, results, form, use_poss) ==
  IF alts = <<>> THEN results
  ELSE AfterExceptionAlt(ExceptionAlt(Head(alts), form, use_poss), Tail(alts),
                         results, form, use_poss)

\* add_exception from the cleaned value v on
SplitException(v, results, form, use_poss) ==
  IF StartsWith(v, <<"/">>) \/ EndsWith(v, <<"/">>) THEN results
  ELSE ExceptionAlts(Split(v, ","), results, form, use_poss)

add_exception(v, results, name, form, use_poss) ==
  SplitException(clean_exception(RemoveAll(IF name # "fi-decl-pron"
                                           THEN RemovePronouns(v) ELSE v,
                                           <<"(", "*", ")">>)),
                 results, form, use_poss)

\* add_exception for each of the keys that holds a non-empty value, in order
RECURSIVE AddExceptions(_, _, _, _, _, _)
AddExceptions(keys, args, results, name, form, use_poss) ==
  IF keys = <<>> THEN results
  ELSE AddExceptions(Tail(keys), args,
                     IF Get(args, Head(keys), <<>>) # <<>>
                     THEN add_exception(args[Head(keys)], results, name, form, use_poss)
                     ELSE results,
                     name, form, use_poss)

\* A wrong choice: the plain templates of the form come before its variants
SelectTemplatesPlainFirst(decl, form, use_poss, use_clitic) ==
  LET forms == decl.forms
  IN IF form \in DOMAIN forms THEN forms[form]
     ELSE IF use_clitic /\ ~use_poss /\ (form \o "-clitic") \in DOMAIN forms
     THEN forms[form \o "-clitic"]
     ELSE IF use_poss /\ (form \o "-poss") \in DOMAIN forms
     THEN forms[form \o "-poss"]
     ELSE <<>>

\* The templates chosen for the form: NONE stands for no templates
SelectTemplates(decl, form, use_poss, use_clitic) ==
  LET forms == decl.forms
  IN IF use_clitic /\ ~use_poss /\ (form \o "-clitic") \in DOMAIN forms
     THEN forms[form \o "-clitic"]
     ELSE IF use_poss /\ (form \o "-poss") \in DOMAIN forms
     THEN forms[form \o "-poss"]
     ELSE IF form \in DOMAIN forms THEN forms[form]
     ELSE <<>>

\* v and v not in results
AddOutput(results, v) ==
  IF v # NONE /\ v # <<>> THEN AddUnique(results, v) ELSE results

\* A wrong loop: the first failing template ends it
RECURSIVE RunTemplatesStopAtFailure(_, _, _, _, _)
RunTemplatesStopAtFailure(templates, args, ill_sg_vowel, ill_sg_vowel2, results) ==
  IF templates = <<>> THEN results
  ELSE LET v == process_template(Head(templates), args, ill_sg_vowel)
       IN IF v = NONE THEN results
          ELSE RunTemplatesStopAtFailure(Tail(templates), args, ill_sg_vowel,
                                         ill_sg_vowel2, AddOutput(results, v))

\* One template with one illative vowel: its output joins results
RunTemplate(template, args, ill_sg_vowel, results) ==
  AddOutput(results, process_template(template, args, ill_sg_vowel))

\* The second pass of a template, made when ill_sg_vowel2 is given
RunSecond(template, args, ill_sg_vowel2, results) ==
  IF ill_sg_vowel2 # NONE THEN RunTemplate(template, args, ill_sg_vowel2, results)
  ELSE results

\* Generate word forms for each template
RECURSIVE RunTemplates(_, _, _, _, _)
RunTemplates(templates, args, ill_sg_vowel, ill_sg_vowel2, results) ==
  IF templates = <<>> THEN results
  ELSE RunTemplates(Tail(templates), args, ill_sg_vowel, ill_sg_vowel2,
                    RunSecond(Head(templates), args, ill_sg_vowel2,
                              RunTemplate(Head(templates), args, ill_sg_vowel,
                                          results)))

\* The exception keys of the form that inflect_using looks up: <<>> for none
ExceptionKeys(args, form) ==
  LET formarg == FormArg(form)
  IN IF formarg \in DOMAIN args
     THEN IF args[formarg] # <<>>
          THEN <<formarg, formarg \o "2", formarg \o "3", formarg \o "4">>
          ELSE <<>>
     ELSE IF form \in DOMAIN argument_name_map THEN argument_name_map[form]
     ELSE <<>>

\* Whether the form is given by exception arguments
HasException(args, form) ==
  \/ FormArg(form) \in DOMAIN args
  \/ /\ form \in DOMAIN argument_name_map
     /\ \E i \in 1..Len(argument_name_map[form]) :
           argument_name_map[form][i] \in DOMAIN args

\* The part of inflect_using after the split check: exceptions, then templates
InflectPlain(decl, name, args, form, use_poss, use_clitic) ==
  IF HasException(args, form)
  THEN AddExceptions(ExceptionKeys(args, form), args, <<>>, name, form, use_poss)
  ELSE RunTemplates(SelectTemplates(decl, form, use_poss, use_clitic), args,
                    IF form = "ill-sg" THEN Get(args, "ill_sg_vowel", NONE) ELSE NONE,
                    IF form = "ill-sg" THEN Get(args, "ill_sg_vowel2", NONE) ELSE NONE,
                    <<>>)

\* for x in results: for y in ret: x + space + y
Combine(results, ret, space) ==
  IF results = <<>> THEN ret
  ELSE [n \in 1..(Len(results) * Len(ret)) |->
          results[((n - 1) \div Len(ret)) + 1] \o space \o ret[((n - 1) % Len(ret)) + 1]]

RECURSIVE inflect_using(_, _, _, _, _, _)
RECURSIVE SplitLoop(_, _, _, _, _, _, _, _)

\* What the span i of a split declension inflects to
SpanResults(decls, split, args, form, use_poss, use_clitic, i) ==
  LET last_part == (i = Len(split) - 2)
      start == split[i + 1]
      new_name == split[i + 2]
      end == IF last_part THEN 100 ELSE split[i + 3]
  IN inflect_using(decls, new_name,
                   SpanArgs(decls, args, start, end, new_name, last_part), form,
                   last_part /\ use_poss, last_part /\ use_clitic).results

\* The loop over the spans of a split declension, from span i (0, 2, ...) on
SplitLoop(decls, split, args, form, use_poss, use_clitic, i, results) ==
  IF i >= Len(split) THEN results
  ELSE SplitLoop(decls, split, args, form, use_poss, use_clitic, i + 2,
                 Combine(results,
                         SpanResults(decls, split, args, form, use_poss, use_clitic, i),
                         Get(args, "space", <<" ">>)))

\* inflect_using once the declension is found and args is reconciled (rec)
InflectReconciled(decls, decl, name, rec, form, use_poss, use_clitic) ==
  [results |->
     IF decl.split # <<>> /\ (form # "" \/ "word" \notin DOMAIN rec.args)
     THEN SplitLoop(decls, decl.split, rec.args, form, use_poss, use_clitic, 0, <<>>)
     ELSE InflectPlain(decl, name, rec.args, form, use_poss, use_clitic),
   caller |-> rec.caller]

\* The declension name after decl_name_map
MappedName(name) == IF name \in DOMAIN decl_name_map THEN decl_name_map[name] ELSE name

\* The list inflect_using returns (results) and what the dict passed as args
\* holds after the call (caller)
inflect_using(decls, name, args, form, use_poss, use_clitic) ==
  IF MappedName(name) \notin DOMAIN decls THEN [results |-> <<>>, caller |-> args]
  ELSE InflectReconciled(decls, decls[MappedName(name)], MappedName(name),
                         ReconcileArgs(decls[MappedName(name)], args),
                         form, use_poss, use_clitic)

(***************************************************************************)
(* add_possessive and add_clitic.  RAISED stands for a call that ends in   *)
(* an exception (a failed assert, an index out of range).                  *)
(***************************************************************************)
RAISED == << <<"raised">> >>

\* The literal suffix appended to parts, "A" by the harmony of what precedes
RECURSIVE AppendSuffix(_, _)
AppendSuffix(p, suffix) ==
  IF suffix = <<>> THEN p
  ELSE IF Head(suffix) = "A"
  THEN AppendSuffix(Append(p, IF needs_aou(p) THEN "a" ELSE "ä"), Tail(suffix))
  ELSE AppendSuffix(Append(p, Head(suffix)), Tail(suffix))

GeminationForms ==
  {"ine-sg", "ine-pl", "ela-sg", "ela-pl", "all-sg", "all-pl", "ade-sg", "ade-pl",
   "abl-sg", "abl-pl", "tra-sg", "tra-pl", "ess-sg", "ess-pl", "abe-sg", "abe-pl",
   "ptv-sg", "ptv-pl", "cmt", "inf1-long", "inf2", "inf3", "inf4", "inf5"}

\* What one suffix adds for one result: a list of one string, or of none
PossessiveOf(v, suffix, form) ==
  IF Head(suffix) # "@" THEN <<AppendSuffix(v, suffix)>>
  ELSE IF form \notin GeminationForms THEN <<>>
  ELSE IF Len(v) < 2 \/ Last(v) \notin Vowels THEN <<>>
  ELSE IF v[Len(v) - 1] = Last(v) THEN <<>>
  ELSE <<v \o <<Last(v)>> \o Tail(suffix)>>

add_possessive(results, form, poss) ==
  IF poss = "" THEN results
  ELSE LET suffixes == possessive_suffixes[poss]
       IN Join([n \in 1..(Len(suffixes) * Len(results)) |->
                  PossessiveOf(results[((n - 1) % Len(results)) + 1],
                               suffixes[((n - 1) \div Len(results)) + 1], form)])

VoicelessBlock ==
  {"b", "c", "d", "f", "g", "h", "j", "k", "l", "m", "p", "q", "r", "s", "t",
   "v", "w", "x", "z"}

\* process_template(t, {"1": stem})
CliticTemplate(t, stem) == process_template(t, ("1" :> stem), NONE)

\* if ret: rets.append(ret)
IfAny(ret) == IF ret # NONE /\ ret # <<>> THEN <<ret>> ELSE <<>>

\* What add_clitic appends for the result v (v is not empty when clitic is "kOs")
CliticOf(v, clitic) ==
  (IF v # <<>> THEN <<CliticTemplate(<<"1">> \o CliticChars[clitic], v)>> ELSE <<>>)
  \o (IF clitic = "kOs" /\ Last(v) \notin VoicelessBlock
      THEN IfAny(CliticTemplate(<<"1", "k", "s">>, v)) ELSE <<>>)
  \o (IF clitic = "kOs" /\ Last(v) = "t"
      THEN IfAny(CliticTemplate(<<"1", "k", "s">>, Front(v))) ELSE <<>>)

add_clitic(results, clitic) ==
  IF clitic = "" \/ clitic = "__dummy__" THEN results
  ELSE IF clitic = "kOs" /\ \E i \in 1..Len(results) : results[i] = <<>> THEN RAISED
  ELSE Join([i \in 1..Len(results) |-> CliticOf(results[i], clitic)])

(***************************************************************************)
(* inflect_nominal.  Each facade yields ret (the list returned, or RAISED),*)
(* warned (undef_decl_warned after the call), printed (the names whose     *)
(* diagnostic the call printed) and caller (what the dict passed as args   *)
(* holds after the call).                                                  *)
(***************************************************************************)
Outcome(ret, warned, printed, caller) ==
  [ret |-> ret, warned |-> warned, printed |-> printed, caller |-> caller]

\* The word may occur in one number only and the form is of the other
NumberConflict(args, form, force_n) ==
  \/ /\ ~force_n /\ "n" \in DOMAIN args
     /\ \/ Strip(args["n"]) \in {<<"p">>, <<"p", "l">>, <<"P", "l">>, <<"p", "l", "u", "r", "a", "l">>, <<"P", "l", "u", "r", "a", "l">>} /\ EndsSg(form)
        \/ Strip(args["n"]) \in {<<"s">>, <<"s", "g">>, <<"S", "g">>, <<"s", "i", "n", "g", "u", "l", "a", "r">>, <<"S", "i", "n", "g", "u", "l", "a", "r">>} /\ EndsPl(form)
  \/ ~force_n /\ Get(args, "nopl", <<"0">>) # <<"0">> /\ EndsPl(form)
  \/ ~force_n /\ Get(args, "nosg", <<"0">>) # <<"0">> /\ EndsSg(form)

\* The assert on a result x of the comparison branch
CompAsserted(x, comp) ==
  CASE comp = "comp" -> EndsWith(x, <<"m", "p", "i">>)
    [] comp = "sup" -> EndsWith(x, <<"i", "n">>)
    [] comp = "hkO" -> EndsWith(x, <<"h", "k", "o">>) \/ EndsWith(x, <<"h", "k", "ö">>)
    [] OTHER -> TRUE

\* The stem of the result x of the comparison branch
CompStem(x, comp) ==
  CASE comp = "comp" -> DropLast(x, 3)
    [] comp = "sup" -> DropLast(x, 2)
    [] OTHER -> x

\* The declension the degree is inflected in
CompName(comp, name) ==
  CASE comp = "comp" -> "fi-decl-vanhempi"
    [] comp = "sup" -> "fi-decl-sisin"
    [] comp = "hkO" -> "fi-decl-valo"
    [] OTHER -> name

\* The args the stem x is inflected with
CompArgs(x) == ("1" :> x) @@ ("5" :> word_to_aae(x))

\* The loop over results1 of the comparison branch: every result is
\* re-inflected in the declension of its degree; name and args are rebound
RECURSIVE CompLoop(_, _, _, _, _, _, _, _)
CompLoop(results1, comp, form, use_poss, use_clitic, results, name, args) ==
  IF results1 = <<>> THEN [results |-> results, args |-> args]
  ELSE IF ~CompAsserted(Head(results1), comp) THEN [results |-> RAISED, args |-> args]
  ELSE CompLoop(Tail(results1), comp, form, use_poss, use_clitic,
                results \o inflect_using(noun_decls, CompName(comp, name),
                                         CompArgs(CompStem(Head(results1), comp)),
                                         form, use_poss, use_clitic).results,
                CompName(comp, name), CompArgs(CompStem(Head(results1), comp)))

\* The comparison branch after its loop l
Compared(l, caller) == [results |-> l.results, args |-> l.args, caller |-> caller]

\* The plain branch: with i=0 and no form the final "i" is cut
CutFinalI(results, args, form, poss) ==
  IF form = "" /\ Get(args, "i", NONE) = <<"0">> /\ poss = ""
  THEN IF \E k \in 1..Len(results) : ~EndsWith(results[k], <<"i">>)
       THEN RAISED
       ELSE [k \in 1..Len(results) |-> Front(results[k])]
  ELSE results

\* The three branches of inflect_nominal, given what inflect_using returned (u)
NominalBranch(u, name, args, form, comp, poss, clitic) ==
  IF comp \in {"manner", "comp-manner", "sup-manner"}
  THEN [results |-> u.results, args |-> args, caller |-> u.caller]
  ELSE IF comp # ""
  THEN Compared(CompLoop(u.results, comp, form, poss # "", clitic # "", <<>>,
                         name, args), u.caller)
  ELSE [results |-> CutFinalI(u.results, args, form, poss), args |-> args,
        caller |-> u.caller]

\* Inflect the word for comparison and case: results, the args bound when the
\* branch ends, and what the caller's dict holds
NominalCore(name, args, form, comp, poss, clitic) ==
  NominalBranch(inflect_using(noun_decls, name, args,
                              IF comp # "" THEN comp ELSE form,
                              comp = "" /\ poss # "", comp = "" /\ clitic # ""),
                name, args, form, comp, poss, clitic)

\* With e=1 and no form every result gets a final "e"
AddFinalE(results, args, form) ==
  IF results # RAISED /\ form = "" /\ Get(args, "e", <<"0">>) = <<"1">>
  THEN [k \in 1..Len(results) |-> results[k] \o <<"e">>]
  ELSE results

\* Possessive suffixes and clitics are added to the results, if there are any
Suffixed(results, form, poss, clitic, warned, caller) ==
  IF results = RAISED THEN Outcome(RAISED, warned, <<>>, caller)
  ELSE Outcome(add_clitic(add_possessive(results, form, poss), clitic),
               warned, <<>>, caller)

\* inflect_nominal after the branches (core)
NominalDone(core, form, poss, clitic, warned) ==
  Suffixed(AddFinalE(core.results, core.args, form), form, poss, clitic, warned,
           core.caller)

\* The possessive of inflect_nominal: the comitative takes a suffix
NominalPoss(args, form, poss) ==
  IF /\ Get(args, "pos", NONE) \notin {<<"a", "d", "j">>, <<"p", "r", "o", "n">>, <<"n", "u", "m">>}
     /\ form = "cmt" /\ poss = ""
  THEN "3x" ELSE poss

\* The comparison of inflect_nominal: adjectives only
NominalComp(args, comp) ==
  IF comp # "" /\ Get(args, "pos", NONE) # <<"a", "d", "j">> THEN "" ELSE comp

inflect_nominal(name, args, form, comp, poss, clitic, force_n, warned) ==
  IF name \notin DOMAIN noun_decls /\ name \notin DOMAIN decl_name_map
  THEN Outcome(<<>>, warned \cup {name}, <<>>, args)
  ELSE IF \/ form \notin CASE_FORMS \/ comp \notin COMPARATIVE_FORMS
          \/ poss \notin POSSESSIVE_FORMS
          \/ clitic \notin CLITIC_FORMS \cup {"__dummy__"}
  THEN Outcome(RAISED, warned, <<>>, args)
  ELSE IF NumberConflict(args, form, force_n) THEN Outcome(<<>>, warned, <<>>, args)
  ELSE NominalDone(NominalCore(name, args, form, NominalComp(args, comp),
                               NominalPoss(args, form, poss), clitic),
                   form, NominalPoss(args, form, poss), clitic, warned)

(***************************************************************************)
(* inflect_verbal and inflect                                              *)
(***************************************************************************)
\* Default fi-conj-kumajaa to arg2 "a": args is copied first
DefaultSlot2(name, args) ==
  IF name = "fi-conj-kumajaa" /\ ~HasSlot(args, 2)
  THEN [args |-> SetKey(args, IntKey("2"), <<"a">>), caller |-> args, copied |-> TRUE]
  ELSE [args |-> args, caller |-> args, copied |-> FALSE]

NominalVerbForms ==
  {"pres-part", "pres-pass-part", "agnt-part", "nega-part", "past-part",
   "past-pass-part", "inf2", "inf2-pass", "inf3", "inf3-pass", "inf4", "jA"}

\* The declension and the args a verb form's result v is declined with:
\* "continue" for a result that is too short, "raise" for a failed assert
VerbalDerive(vform, v) ==
  IF vform \in {"pres-part", "pres-pass-part", "agnt-part"}
  THEN IF Len(v) < 4 THEN [kind |-> "continue", name |-> "", args |-> EmptyDict]
       ELSE [kind |-> "go", name |-> "fi-decl-koira",
             args |-> ("1" :> Front(v)) @@ ("2" :> <<>>) @@ ("3" :> <<>>) @@
                      ("4" :> word_to_aae(v)) @@ ("pos" :> <<"a", "d", "j">>)]
  ELSE IF vform = "past-part"
  THEN IF Len(v) < 4 THEN [kind |-> "continue", name |-> "", args |-> EmptyDict]
       ELSE [kind |-> "go", name |-> "fi-decl-kuollut",
             args |-> ("1" :> DropLast(v, 2)) @@ ("2" :> word_to_aae(v)) @@
                      ("pos" :> <<"a", "d", "j">>)]
  ELSE IF vform = "nega-part"
  THEN [kind |-> "go", name |-> "fi-decl-onneton",
        args |-> ("1" :> DropLast(v, 3)) @@ ("2" :> word_to_aae(v)) @@
                 ("pos" :> <<"a", "d", "j">>)]
  ELSE [kind |-> "raise", name |-> "", args |-> EmptyDict]

RECURSIVE VerbalLoop(_, _, _, _, _, _, _, _)

\* The loop after inflect_nominal returned o for one result: rest is still to do
AfterDeclined(o, rest, vform, comp, case, poss, clitic, results2) ==
  IF o.ret = RAISED THEN [ret |-> RAISED, warned |-> o.warned]
  ELSE VerbalLoop(rest, vform, comp, case, poss, clitic, results2 \o o.ret, o.warned)

\* One result of the verb form, derived as d
DeclineDerived(d, rest, vform, comp, case, poss, clitic, results2, warned) ==
  IF d.kind = "raise" THEN [ret |-> RAISED, warned |-> warned]
  ELSE IF d.kind = "continue"
  THEN VerbalLoop(rest, vform, comp, case, poss, clitic, results2, warned)
  ELSE AfterDeclined(inflect_nominal(d.name, d.args, case, comp, poss, clitic,
                                     FALSE, warned),
                     rest, vform, comp, case, poss, clitic, results2)

\* The loop over the results of the verb form, each declined by inflect_nominal
VerbalLoop(results, vform, comp, case, poss, clitic, results2, warned) ==
  IF results = <<>> THEN [ret |-> results2, warned |-> warned]
  ELSE DeclineDerived(VerbalDerive(vform, Head(results)), Tail(results), vform, comp,
                      case, poss, clitic, results2, warned)

\* What inflect_verbal returns after its loop l
Declined(l, caller) == Outcome(l.ret, l.warned, <<>>, caller)

\* inflect_verbal from the results of the verb form on
VerbalDone(results, caller, vform, comp, case, poss, clitic, warned) ==
  IF case # "" \/ vform \in NominalVerbForms
  THEN Declined(VerbalLoop(results, vform, comp, case, poss, clitic, <<>>, warned),
                caller)
  ELSE Suffixed(results, vform, poss, clitic, warned, caller)

\* inflect_verbal with the args d it goes on with
VerbalUsing(d, u, vform, comp, case, poss, clitic, warned) ==
  VerbalDone(u.results, IF d.copied THEN d.caller ELSE u.caller,
             vform, comp, case, poss, clitic, warned)

\* The verb form and the possessive inflect_verbal goes on with
VerbalForm(vform) == IF vform = "" THEN "inf1" ELSE vform

VerbalPoss(vform, poss) ==
  IF poss = "" /\ VerbalForm(vform) \in {"inf1-long", "inf5"} THEN "3x" ELSE poss

VerbalArgs(d, name, vform, comp, case, poss, clitic, warned) ==
  VerbalUsing(d, inflect_using(verb_conjs, name, d.args, vform,
                               case # "" \/ poss # "", clitic # ""),
              vform, comp, case, poss, clitic, warned)

inflect_verbal(name, args, vform, comp, case, poss, clitic, warned) ==
  IF name \notin DOMAIN verb_conjs
  THEN Outcome(<<>>, warned \cup {name}, <<>>, args)
  ELSE IF \/ vform \notin VERB_FORMS \/ poss \notin POSSESSIVE_FORMS
          \/ comp \notin COMPARATIVE_FORMS
          \/ clitic \notin CLITIC_FORMS \cup {"__dummy__"}
  THEN Outcome(RAISED, warned, <<>>, args)
  ELSE VerbalArgs(DefaultSlot2(name, args), name, VerbalForm(vform), comp, case,
                  VerbalPoss(vform, poss), clitic, warned)

\* A wrong inflect: the diagnostic is printed without a look at the set
inflectAlwaysWarns(name, args, form, force_n, warned) ==
  Outcome(<<>>, warned \cup {name}, <<name>>, args)

\* A wrong inflect: a name warned about before raises
inflectWarnedRaises(name, args, form, force_n, warned) ==
  Outcome(IF name \in warned THEN RAISED ELSE <<>>, warned \cup {name},
          IF name \notin warned THEN <<name>> ELSE <<>>, args)

\* inflect for a name that is not in CONJ_DECL_NAMES
inflectUndefined(name, args, form, force_n, warned) ==
  Outcome(<<>>, warned \cup {name},
          IF name \notin warned THEN <<name>> ELSE <<>>, args)

\* A wrong inflect: the facade is chosen by the table that knows the name
inflectRoutedByName(name, args, form, force_n, warned) ==
  IF name \notin CONJ_DECL_NAMES THEN inflectUndefined(name, args, form, force_n, warned)
  ELSE IF name \in DOMAIN verb_conjs
  THEN inflect_verbal(name, args, form[1], form[2], form[3], form[4], form[5], warned)
  ELSE inflect_nominal(name, args, form[3], form[2], form[4], form[5], force_n, warned)

\* inflect(args, form, force_n) with args["template_name"] = name; form is
\* (vform, comp, case, poss, clitic)
inflect(name, args, form, force_n, warned) ==
  IF name \notin CONJ_DECL_NAMES THEN inflectUndefined(name, args, form, force_n, warned)
  ELSE IF \/ form[1] \notin VERB_FORMS \/ form[2] \notin COMPARATIVE_FORMS
          \/ form[3] \notin CASE_FORMS \/ form[4] \notin POSSESSIVE_FORMS
          \/ form[5] \notin CLITIC_FORMS \cup {"__dummy__"}
  THEN Outcome(RAISED, warned, <<>>, args)
  ELSE IF form[1] # ""
  THEN inflect_verbal(name, args, form[1], form[2], form[3], form[4], form[5], warned)
  ELSE inflect_nominal(name, args, form[3], form[2], form[4], form[5], force_n, warned)

(***************************************************************************)
(* State                                                                   *)
(***************************************************************************)
VARIABLES
  pt_template,        \* process_template: the template characters read so far
  pt_args,            \* process_template: its args
  pt_ill,             \* process_template: its ill_sg_vowel (NONE by default)
  pt_prev,            \* the interpreter state before the last character
  pt_st,              \* the interpreter state after it
  pt_out,             \* RUNNING, or what process_template returned
  undef_decl_warned,  \* the module's set of names already warned about
  printed,            \* how often the diagnostic of each name was printed
  op,                 \* the function last called ("" before any call)
  call,               \* its arguments
  ret,                \* the list it returned, or RAISED
  args_after,         \* what the caller's args dict holds after the call
  th_pc,              \* each thread's position in its call of inflect
  th_call,            \* the call each thread makes
  th_ret,             \* what the last call of each thread returned
  th_done,            \* how many calls each thread has finished
  th_printed,         \* how often each thread printed the diagnostic of a name
  cd_op,              \* the codec function last called ("" before any call)
  cd_args,            \* the args passed to encode_paradigm (empty after other calls)
  cd_stem,            \* the stem returned by encode_paradigm or passed to the others
  cd_code,            \* the paradigm code that goes with cd_stem
  cd_decoded,         \* the args decode_paradigm returned (empty after other calls)
  cd_bool,            \* what valid_unknown_stem or is_guessable returned
  stack,              \* the calls of one inflect in progress, the innermost last
  steps               \* how many steps that call of inflect has taken

ptVars == <<pt_template, pt_args, pt_ill, pt_prev, pt_st, pt_out>>

callVars == <<undef_decl_warned, printed, op, call, ret, args_after>>

thVars == <<th_pc, th_call, th_ret, th_done, th_printed>>

vars == <<pt_template, pt_args, pt_ill, pt_prev, pt_st, pt_out,
          undef_decl_warned, printed, op, call, ret, args_after,
          th_pc, th_call, th_ret, th_done, th_printed,
          cd_op, cd_args, cd_stem, cd_code, cd_decoded, cd_bool, stack, steps>>

cdVars == <<cd_op, cd_args, cd_stem, cd_code, cd_decoded, cd_bool>>

stVars == <<stack, steps>>

(***************************************************************************)
(* process_template, one template character per step.  The template is any *)
(* string over PTDigits, the operators and PTLiterals of at most           *)
(* MaxTemplateLen characters: each step reads one more character, and the  *)
(* template may end after any of them.                                     *)
(***************************************************************************)
MaxTemplateLen == 3

RUNNING == <<"running">>

PTDigits == {"1", "3", "9"}

PTLiterals == {"k"}

\* (args, ill_sg_vowel) of the calls
PTInputs ==
  { <<("1" :> <<"t", "a">>), NONE>>,
    <<("#1" :> <<"k", "i", "p">>) @@ ("1" :> <<"x">>), NONE>>,
    <<("1" :> <<"n">>) @@ ("par_sg_a" :> <<"a">>), NONE>>,
    <<("1" :> <<"(", "'", ")">>) @@ ("#3" :> <<"y">>), NONE>>,
    <<("1" :> <<"t", "a", "l">>) @@ ("par_sg_a" :> <<>>), NONE>>,
    <<("1" :> <<"t", "y", "ö">>), <<"e">>>> }

\* Every name a call of the model is made with
AllNames ==
  CONJ_DECL_NAMES \cup {"fi-decl-foo", "fi-conj-bar"}

NoCall ==
  [name |-> "", args |-> EmptyDict, form |-> <<"", "", "", "", "">>,
   force_n |-> FALSE, decls |-> "", uform |-> "", use_poss |-> FALSE,
   use_clitic |-> FALSE]

\* No call was made yet
CallIdle ==
  /\ undef_decl_warned = {}
  /\ printed = [n \in AllNames |-> 0]
  /\ op = ""
  /\ call = NoCall
  /\ ret = <<>>
  /\ args_after = EmptyDict

Threads == {1, 2}

\* No thread was started
ThreadsIdle ==
  /\ th_pc = [t \in Threads |-> "idle"]
  /\ th_call = [t \in Threads |-> NoCall]
  /\ th_ret = [t \in Threads |-> <<>>]
  /\ th_done = [t \in Threads |-> 0]
  /\ th_printed = [t \in Threads |-> [n \in AllNames |-> 0]]

\* No codec function was called
CodecIdle ==
  /\ cd_op = "" /\ cd_args = EmptyDict /\ cd_stem = <<>> /\ cd_code = <<>>
  /\ cd_decoded = EmptyDict /\ cd_bool = FALSE

\* No call is in progress
StackIdle == stack = <<>> /\ steps = 0

PTIdle ==
  /\ pt_template = <<>> /\ pt_args = EmptyDict /\ pt_ill = NONE
  /\ pt_prev = PTStart /\ pt_st = PTStart /\ pt_out = RUNNING

PTInit ==
  /\ pt_template = <<>>
  /\ \E in \in PTInputs : pt_args = in[1] /\ pt_ill = in[2]
  /\ pt_prev = PTStart
  /\ pt_st = PTStart
  /\ pt_out = RUNNING
  /\ CallIdle
  /\ ThreadsIdle
  /\ CodecIdle
  /\ StackIdle

\* The loop body for the template character x; a failing operator returns None
PTTake(x) ==
  /\ pt_out = RUNNING
  /\ Len(pt_template) < MaxTemplateLen
  /\ pt_template' = Append(pt_template, x)
  /\ pt_prev' = pt_st
  /\ pt_st' = PTStep(x, pt_st, pt_args, pt_ill)
  /\ pt_out' = IF pt_st'.ok THEN RUNNING ELSE NONE
  /\ UNCHANGED <<pt_args, pt_ill>>
  /\ UNCHANGED callVars
  /\ UNCHANGED thVars
  /\ UNCHANGED cdVars
  /\ UNCHANGED stVars

PTDigit == \E x \in PTDigits : PTTake(x)

PTAt == PTTake("@")

PTA == PTTake("A")

PTO == PTTake("O")

PTU == PTTake("U")

PTD == PTTake("D")

PTI == PTTake("I")

PTMinus == PTTake("-")

PTSlash == PTTake("/")

PTLiteral == \E x \in PTLiterals : PTTake(x)

\* The template has no more characters
PTReturn ==
  /\ pt_out = RUNNING
  /\ pt_out' = PTResult(pt_st)
  /\ UNCHANGED <<pt_template, pt_args, pt_ill, pt_prev, pt_st>>
  /\ UNCHANGED callVars
  /\ UNCHANGED thVars
  /\ UNCHANGED cdVars
  /\ UNCHANGED stVars

PTNext ==
  \/ PTDigit \/ PTAt \/ PTA \/ PTO \/ PTU \/ PTD \/ PTI
  \/ PTMinus \/ PTSlash \/ PTLiteral \/ PTReturn

SpecPT == PTInit /\ [][PTNext]_vars

\* The steps and the function agree on what a template yields
PTStepsAgree ==
  pt_out # RUNNING => pt_out = process_template(pt_template, pt_args, pt_ill)

(***************************************************************************)
(* The calls.  A word is a paradigm name with its args (inflect reads the  *)
(* name from args["template_name"]; the model keeps it beside the other    *)
(* keys); a request is the form tuple (vform, comp, case, poss, clitic)    *)
(* with force_n.                                                           *)
(***************************************************************************)
Word ==
  [ koira |-> <<"fi-decl-koira",
                ("1" :> <<"k", "o", "i", "r">>) @@ ("2" :> <<>>) @@ ("3" :> <<>>) @@ ("4" :> <<"a">>)>>,
    kala  |-> <<"fi-decl-kala",
                ("#1" :> <<"k", "u", "k">>) @@ ("#2" :> <<"k">>) @@ ("#3" :> <<>>) @@ ("pos" :> <<"a", "d", "j">>)>>,
    koire |-> <<"fi-decl-koira",
                ("1" :> <<"k", "o", "i", "r">>) @@ ("2" :> <<>>) @@ ("3" :> <<>>) @@ ("4" :> <<>>)
                @@ ("e" :> <<"1">>)>>,
    valo  |-> <<"fi-decl-valo",
                ("1" :> <<"v", "a", "l">>) @@ ("2" :> <<>>) @@ ("3" :> <<>>) @@ ("4" :> <<"o">>)
                @@ ("5" :> <<"a">>) @@ ("n" :> <<"s", "g">>) @@ ("ill_sg_vowel2" :> <<"e">>)>>,
    uusi  |-> <<"fi-decl-palvelu",
                ("1" :> <<"u", "u">>) @@ ("2" :> <<"s", "i">>) @@ ("3" :> <<"a">>) @@ ("i" :> <<"0">>)>>,
    olut  |-> <<"fi-decl-palvelu",
                ("1" :> <<"o", "l", "u", "t">>) @@ ("2" :> <<"a">>) @@ ("nom_sg" :> <<"o", "l", "u", "t", ",", " ", "o", "l", "u">>)
                @@ ("gen_sg" :> <<"[", "[", "o", "l", "u", "t", "|", "o", "l", "u", "e", "n", "]", "]">>)>>,
    pron  |-> <<"fi-decl-pron",
                ("nom_sg" :> <<"h", "ä", "n">>) @@ ("gen_sg" :> <<"h", "ä", "n", "e", "n", ",", " ", "-", ",", " ", "s", "e", "n">>)
                @@ ("tra_sg" :> <<"h", "ä", "n", "e", "k", "s", "i", ",", " ", "s", "i", "k", "s", "i">>)>>,
    dna   |-> <<"fi-decl-maa-dot", ("1" :> <<"D", "N", "A">>) @@ ("2" :> <<"a">>) @@ ("3" :> <<"a">>)>>,
    split |-> <<"fi-decl-valo-koira",
                ("1" :> <<"v", "a", "l">>) @@ ("2" :> <<>>) @@ ("3" :> <<>>) @@ ("4" :> <<"o">>)
                @@ ("5" :> <<"a">>) @@ ("6" :> <<"k", "o", "i", "r">>) @@ ("7" :> <<>>) @@ ("8" :> <<>>)
                @@ ("9" :> <<"a">>)>>,
    nostem |-> <<"fi-decl-palvelu", ("1" :> <<>>) @@ ("2" :> <<"a">>)>>,
    foo   |-> <<"fi-decl-foo", ("1" :> <<"f", "o", "o">>)>>,
    bar   |-> <<"fi-conj-bar", ("1" :> <<"b", "a", "r">>)>>,
    saada |-> <<"fi-conj-saada", ("1" :> <<"s", "a", "a">>) @@ ("2" :> <<"a">>)>>,
    kumajaa |-> <<"fi-conj-kumajaa", ("1" :> <<"k", "u", "m", "a">>)>> ]

NounWords == {"koira", "kala", "koire", "valo", "uusi", "olut", "pron", "dna", "split",
              "foo"}

\* <<form, force_n>>
Request ==
  [ nom          |-> <<<<"", "", "", "", "">>, FALSE>>,
    gen_sg       |-> <<<<"", "", "gen-sg", "", "">>, FALSE>>,
    gen_pl       |-> <<<<"", "", "gen-pl", "", "">>, FALSE>>,
    gen_pl_force |-> <<<<"", "", "gen-pl", "", "">>, TRUE>>,
    ill_sg_3x    |-> <<<<"", "", "ill-sg", "3x", "">>, FALSE>>,
    tra_sg_1s    |-> <<<<"", "", "tra-sg", "1s", "">>, FALSE>>,
    cmt          |-> <<<<"", "", "cmt", "", "">>, FALSE>>,
    nom_kOs      |-> <<<<"", "", "", "", "kOs">>, FALSE>>,
    gen_sg_kin   |-> <<<<"", "", "gen-sg", "", "kin">>, FALSE>>,
    comp_gen_sg  |-> <<<<"", "comp", "gen-sg", "", "">>, FALSE>>,
    sup          |-> <<<<"", "sup", "", "", "">>, FALSE>>,
    manner       |-> <<<<"", "manner", "", "", "">>, FALSE>>,
    inf1         |-> <<<<"inf1", "", "", "", "">>, FALSE>>,
    pres_1sg_kOs |-> <<<<"pres-1sg", "", "", "", "kOs">>, FALSE>>,
    pres_part_gen_sg |-> <<<<"pres-part", "", "gen-sg", "", "">>, FALSE>>,
    inf1_long    |-> <<<<"inf1-long", "", "", "", "">>, FALSE>>,
    inf1_gen_sg  |-> <<<<"inf1", "", "gen-sg", "", "">>, FALSE>> ]

Calls(ws, rs) == {<<Word[w], Request[r]>> : w \in ws, r \in rs}

InflectCalls ==
  Calls(NounWords, {"nom"})
  \cup Calls({"koira", "koire", "valo", "uusi", "split", "foo"}, {"gen_pl"})
  \cup Calls({"koira", "koire", "olut", "pron"}, {"nom_kOs"})
  \cup Calls({"koira", "valo", "uusi", "pron"}, {"ill_sg_3x"})
  \cup Calls({"koira", "olut", "pron", "split"}, {"gen_sg"})
  \cup Calls({"olut"}, {"gen_sg_kin"})
  \cup Calls({"valo"}, {"gen_pl_force"})
  \cup Calls({"koira", "pron"}, {"tra_sg_1s"})
  \cup Calls({"koira", "kala"}, {"cmt", "comp_gen_sg"})
  \cup Calls({"kala"}, {"sup", "manner"})
  \cup Calls({"saada"}, {"inf1", "pres_1sg_kOs", "pres_part_gen_sg", "inf1_long"})
  \cup Calls({"kumajaa"}, {"inf1", "inf1_long"})
  \cup Calls({"bar", "koira"}, {"inf1"})
  \cup Calls({"saada"}, {"inf1_gen_sg"})
  \cup Calls({"nostem"}, {"nom"})

InflectNominalCalls ==
  Calls({"koira", "foo"}, {"nom", "gen_pl", "cmt"}) \cup Calls({"valo"}, {"gen_pl_force"})

InflectVerbalCalls ==
  Calls({"saada", "foo"}, {"inf1", "pres_part_gen_sg"}) \cup Calls({"kumajaa"}, {"inf1"})

\* <<word, <<which table, form, use_poss, use_clitic>>>>
UsingCalls(ws, rs) == {<<Word[w], r>> : w \in ws, r \in rs}

InflectUsingCalls ==
  UsingCalls(NounWords \ {"koire", "valo"}, {<<"noun", "", FALSE, FALSE>>})
  \cup UsingCalls({"koira", "koire", "split"}, {<<"noun", "gen-pl", FALSE, FALSE>>})
  \cup UsingCalls({"valo", "uusi"}, {<<"noun", "ill-sg", FALSE, FALSE>>})
  \cup UsingCalls({"koira", "olut"}, {<<"noun", "tra-sg", TRUE, FALSE>>})
  \cup UsingCalls({"nostem"}, {<<"noun", "", FALSE, FALSE>>, <<"noun", "ill-sg", FALSE, FALSE>>})
  \cup UsingCalls({"koira", "olut"},
                  {<<"noun", "", FALSE, TRUE>>, <<"noun", "gen-sg", TRUE, FALSE>>})
  \cup UsingCalls({"koira"}, {<<"noun", "cmt", TRUE, FALSE>>, <<"verb", "", FALSE, FALSE>>})
  \cup UsingCalls({"saada", "kumajaa", "bar"}, {<<"verb", "inf1", FALSE, FALSE>>})
  \cup UsingCalls({"saada"}, {<<"verb", "inf1-long", TRUE, FALSE>>})

Decls(which) == IF which = "verb" THEN verb_conjs ELSE noun_decls

\* The call is made and returns: the outcome o becomes the state
Returns(f, c, o) ==
  /\ op' = f
  /\ call' = c
  /\ ret' = o.ret
  /\ args_after' = o.caller
  /\ undef_decl_warned' = o.warned
  /\ printed' = [n \in AllNames |->
                   printed[n] + Cardinality({i \in 1..Len(o.printed) : o.printed[i] = n})]
  /\ UNCHANGED ptVars
  /\ UNCHANGED thVars
  /\ UNCHANGED cdVars
  /\ UNCHANGED stVars

Inflect ==
  \E c \in InflectCalls :
    LET w == c[1]  r == c[2]
    IN Returns("inflect",
               [NoCall EXCEPT !.name = w[1], !.args = w[2], !.form = r[1],
                              !.force_n = r[2]],
               inflect(w[1], w[2], r[1], r[2], undef_decl_warned))

InflectNominal ==
  \E c \in InflectNominalCalls :
    LET w == c[1]  r == c[2]
    IN Returns("inflect_nominal",
               [NoCall EXCEPT !.name = w[1], !.args = w[2], !.form = r[1],
                              !.force_n = r[2]],
               inflect_nominal(w[1], w[2], r[1][3], r[1][2], r[1][4], r[1][5], r[2],
                               undef_decl_warned))

InflectVerbal ==
  \E c \in InflectVerbalCalls :
    LET w == c[1]  r == c[2]
    IN Returns("inflect_verbal",
               [NoCall EXCEPT !.name = w[1], !.args = w[2], !.form = r[1]],
               inflect_verbal(w[1], w[2], r[1][1], r[1][2], r[1][3], r[1][4], r[1][5],
                              undef_decl_warned))

InflectUsing ==
  \E c \in InflectUsingCalls :
    LET w == c[1]  r == c[2]
        u == inflect_using(Decls(r[1]), w[1], w[2], r[2], r[3], r[4])
    IN Returns("inflect_using",
               [NoCall EXCEPT !.name = w[1], !.args = w[2], !.decls = r[1],
                              !.uform = r[2], !.use_poss = r[3], !.use_clitic = r[4]],
               Outcome(u.results, undef_decl_warned, <<>>, u.caller))

Next == Inflect \/ InflectNominal \/ InflectVerbal \/ InflectUsing

Init == PTIdle /\ CallIdle /\ ThreadsIdle /\ CodecIdle /\ StackIdle

Spec == Init /\ [][Next]_vars

(***************************************************************************)
(* Properties of the calls                                                 *)
(***************************************************************************)
Facades == {"inflect", "inflect_nominal", "inflect_verbal"}

\* C1: the list returned by inflect, inflect_nominal, inflect_verbal and
\* inflect_using contains no string twice.
C1_NoDuplicateResults ==
  (op # "" /\ ret # RAISED) => NoDuplicates(ret)

\* The names a stretch of calls may have warned about
WarnedSets == SUBSET {"fi-decl-foo", "fi-conj-bar", "fi-decl-koira"}

\* C5: the list inflect returns is the same whatever undef_decl_warned held
\* when the call was made: every other content of the set gives the list
\* that was returned.
C5_ResultIndependentOfWarned ==
  op = "inflect" =>
    \A W \in WarnedSets \cup {{call.name}} :
      inflect(call.name, call.args, call.form, call.force_n, W).ret = ret

\* inflect was called with a name that an earlier call of inflect_nominal or
\* inflect_verbal had put into the set
C5_CalledWithWarnedName ==
  /\ op = "inflect" /\ call.name = "fi-decl-foo"
  /\ "fi-decl-foo" \in undef_decl_warned /\ printed["fi-decl-foo"] = 0
  /\ ret = <<>>

\* The name is not one the function called knows
UnknownName(f, name) ==
  CASE f = "inflect" -> name \notin CONJ_DECL_NAMES
    [] f = "inflect_nominal" ->
         name \notin DOMAIN noun_decls /\ name \notin DOMAIN decl_name_map
    [] f = "inflect_verbal" -> name \notin DOMAIN verb_conjs
    [] OTHER -> FALSE

\* C6: over any sequence of calls of inflect, inflect_nominal and
\* inflect_verbal the unknown-paradigm diagnostic is printed at most once for
\* each name, and a call with an unknown name returns the empty list (it
\* does not raise).
C6_DiagnosticAtMostOncePerName ==
  /\ \A n \in AllNames : printed[n] <= 1
  /\ (op \in Facades /\ UnknownName(op, call.name)) => ret = <<>>

\* A call with an unknown name whose diagnostic an earlier call had printed
C6_CalledAgainAfterDiagnostic ==
  /\ op = "inflect_verbal" /\ call.name = "fi-decl-foo"
  /\ printed["fi-decl-foo"] = 1 /\ printed["fi-conj-bar"] = 1
  /\ ret = <<>>

\* C8: no call of inflect, inflect_nominal, inflect_verbal or inflect_using
\* changes the args dict of the caller: after the call it has the keys and
\* values it had before.
C8_CallerArgsUnchanged ==
  op # "" => args_after = call.args

\* A call that had to synthesize the missing final slot and returned forms
C8_FinalSlotSynthesized ==
  /\ op # "" /\ call.name = "fi-decl-kala" /\ ~HasSlot(call.args, 4)
  /\ ret # <<>> /\ ret # RAISED
  /\ args_after = call.args

\* The declension a call of inflect_using looks up
CalledDecl ==
  LET name == IF call.name \in DOMAIN decl_name_map THEN decl_name_map[call.name]
              ELSE call.name
  IN Decls(call.decls)[name]

\* The call of inflect_using came to the loop over the templates of the form:
\* the name is known, the declension is not split and args has no exception
\* for the form
TemplateLoopCall ==
  /\ op = "inflect_using"
  /\ (IF call.name \in DOMAIN decl_name_map THEN decl_name_map[call.name]
      ELSE call.name) \in DOMAIN Decls(call.decls)
  /\ CalledDecl.split = <<>>
  /\ FormArg(call.uform) \notin DOMAIN call.args
  /\ ~ (/\ call.uform \in DOMAIN argument_name_map
        /\ \E i \in 1..Len(argument_name_map[call.uform]) :
              argument_name_map[call.uform][i] \in DOMAIN call.args)

\* What each alternative of the form yields, in declaration order; with
\* ill_sg_vowel2 a template is evaluated a second time right after the first
AlternativeOutputs ==
  LET args == LocalArgs(CalledDecl, call.args)
      templates == SelectTemplates(CalledDecl, call.uform, call.use_poss,
                                   call.use_clitic)
      ill == IF call.uform = "ill-sg" THEN Get(args, "ill_sg_vowel", NONE) ELSE NONE
      ill2 == IF call.uform = "ill-sg" THEN Get(args, "ill_sg_vowel2", NONE) ELSE NONE
      both(t) == IF ill2 = NONE THEN <<process_template(t, args, ill)>>
                 ELSE <<process_template(t, args, ill), process_template(t, args, ill2)>>
  IN Join([i \in 1..Len(templates) |-> both(templates[i])])

\* The first alternative that yields v
FirstYield(outs, v) ==
  CHOOSE i \in 1..Len(outs) : outs[i] = v /\ \A j \in 1..(i - 1) : outs[j] # v

\* ret lists the outputs in keep, each once, in the order the alternatives
\* yield them first
ListsInOrder(outs, keep) ==
  /\ NoDuplicates(ret)
  /\ \A v \in keep : Member(v, ret)
  /\ \A i \in 1..Len(ret) : ret[i] \in keep
  /\ \A i, j \in 1..Len(ret) :
       i < j => FirstYield(outs, ret[i]) < FirstYield(outs, ret[j])

\* C10 as stated: a failing alternative contributes nothing and does not
\* stop the loop; the result is exactly the outputs of the alternatives that
\* do not fail, in declaration order, and it is empty only when every
\* alternative fails.
C10_NonFailingOutputsAsStated ==
  TemplateLoopCall =>
    LET outs == AlternativeOutputs
    IN /\ ListsInOrder(outs, {outs[i] : i \in 1..Len(outs)} \ {NONE})
       /\ (ret = <<>> => \A i \in 1..Len(outs) : outs[i] = NONE)

\* C10: in inflect_using a failing alternative contributes nothing and does
\* not stop the loop; the result is the outputs of the alternatives that
\* neither fail nor yield the empty string, each once, in declaration order,
\* so it is empty only when every alternative fails or yields the empty
\* string.
C10_NonEmptyOutputsInOrder ==
  TemplateLoopCall =>
    LET outs == AlternativeOutputs
    IN /\ ListsInOrder(outs, {outs[i] : i \in 1..Len(outs)} \ {NONE, <<>>})
       /\ (ret = <<>> => \A i \in 1..Len(outs) : outs[i] \in {NONE, <<>>})

\* The first alternative failed and later ones gave the result
C10_FailedAlternativeSkipped ==
  /\ TemplateLoopCall
  /\ Len(AlternativeOutputs) >= 3
  /\ AlternativeOutputs[1] = NONE
  /\ Len(ret) = 2

\* C9 as stated: "-" makes process_template return None when the output is
\* empty or its last character is neither a vowel nor "p"; otherwise it
\* removes exactly the last character of the output and pushes it onto
\* delparts.
C9_MinusFailsOrDropsLastChar ==
  (pt_template # <<>> /\ Last(pt_template) = "-") =>
    LET out == Join(pt_prev.parts)
    IN IF out = <<>> \/ Last(out) \notin Vowels \cup {"p"}
       THEN pt_out = NONE
       ELSE /\ pt_out # NONE
            /\ Join(pt_st.parts) = Front(out)
            /\ Join(pt_st.delparts) = Join(pt_prev.delparts) \o <<Last(out)>>

(***************************************************************************)
(* inflect called from several threads.  The interpreter switches threads  *)
(* between bytecodes, so the membership test, the insertion into           *)
(* undef_decl_warned, the print and the return of a call are steps of      *)
(* their own; a call with names its tables know touches no shared state    *)
(* and is one step.  Each thread makes at most MaxThreadCalls calls.       *)
(***************************************************************************)
MaxThreadCalls == 2

ThreadCalls ==
  Calls({"foo"}, {"nom"}) \cup Calls({"bar", "koira"}, {"inf1"})
  \cup Calls({"koira", "saada"}, {"nom"})

\* A wrong test: the name counts as new whatever the set holds
NotYetWarnedAlways(name, warned) == TRUE

\* name not in undef_decl_warned
NotYetWarned(name, warned) == name \notin warned

\* Where the call goes after  name = args["template_name"]
FirstStep(c) ==
  IF c.name \notin CONJ_DECL_NAMES THEN "test"
  ELSE IF c.form[1] # "" /\ c.name \notin DOMAIN verb_conjs THEN "silent_test"
  ELSE IF c.form[1] = "" /\ c.name \notin DOMAIN noun_decls
                         /\ c.name \notin DOMAIN decl_name_map THEN "silent_test"
  ELSE "run"

ThGoto(t, pc) == th_pc' = [th_pc EXCEPT ![t] = pc]

ThFrame ==
  /\ UNCHANGED ptVars /\ UNCHANGED <<op, call, ret, args_after>> /\ UNCHANGED cdVars
  /\ UNCHANGED stVars

\* Thread t calls inflect
ThCall(t) ==
  /\ th_pc[t] = "idle"
  /\ th_done[t] < MaxThreadCalls
  /\ \E c \in ThreadCalls :
       LET r == [NoCall EXCEPT !.name = c[1][1], !.args = c[1][2], !.form = c[2][1],
                               !.force_n = c[2][2]]
       IN th_call' = [th_call EXCEPT ![t] = r] /\ ThGoto(t, FirstStep(r))
  /\ UNCHANGED <<undef_decl_warned, printed, th_ret, th_done, th_printed>>
  /\ ThFrame

\* inflect:  if name not in undef_decl_warned
ThTest(t) ==
  /\ th_pc[t] = "test"
  /\ ThGoto(t, IF NotYetWarned(th_call[t].name, undef_decl_warned) THEN "add"
               ELSE "return")
  /\ UNCHANGED <<undef_decl_warned, printed, th_call, th_ret, th_done, th_printed>>
  /\ ThFrame

\* inflect:  undef_decl_warned.add(name)
ThAdd(t) ==
  /\ th_pc[t] = "add"
  /\ undef_decl_warned' = undef_decl_warned \cup {th_call[t].name}
  /\ ThGoto(t, "print")
  /\ UNCHANGED <<printed, th_call, th_ret, th_done, th_printed>>
  /\ ThFrame

\* inflect:  print("UNDEFINED DECLENSION/CONJUGATION:", name)
ThPrint(t) ==
  /\ th_pc[t] = "print"
  /\ printed' = [printed EXCEPT ![th_call[t].name] = @ + 1]
  /\ th_printed' = [th_printed EXCEPT ![t][th_call[t].name] = @ + 1]
  /\ ThGoto(t, "return")
  /\ UNCHANGED <<undef_decl_warned, th_call, th_ret, th_done>>
  /\ ThFrame

\* inflect_nominal, inflect_verbal:  if name not in undef_decl_warned
ThSilentTest(t) ==
  /\ th_pc[t] = "silent_test"
  /\ ThGoto(t, IF NotYetWarned(th_call[t].name, undef_decl_warned) THEN "silent_add"
               ELSE "return")
  /\ UNCHANGED <<undef_decl_warned, printed, th_call, th_ret, th_done, th_printed>>
  /\ ThFrame

\* inflect_nominal, inflect_verbal:  undef_decl_warned.add(name)
ThSilentAdd(t) ==
  /\ th_pc[t] = "silent_add"
  /\ undef_decl_warned' = undef_decl_warned \cup {th_call[t].name}
  /\ ThGoto(t, "return")
  /\ UNCHANGED <<printed, th_call, th_ret, th_done, th_printed>>
  /\ ThFrame

\* return []
ThReturn(t) ==
  /\ th_pc[t] = "return"
  /\ th_ret' = [th_ret EXCEPT ![t] = <<>>]
  /\ th_done' = [th_done EXCEPT ![t] = @ + 1]
  /\ ThGoto(t, "idle")
  /\ UNCHANGED <<undef_decl_warned, printed, th_call, th_printed>>
  /\ ThFrame

\* The call of a known name: it reads its arguments and the tables only
ThReturns(t, o) ==
  /\ th_ret' = [th_ret EXCEPT ![t] = o.ret]
  /\ undef_decl_warned' = o.warned

ThRun(t) ==
  /\ th_pc[t] = "run"
  /\ ThReturns(t, inflect(th_call[t].name, th_call[t].args, th_call[t].form,
                          th_call[t].force_n, undef_decl_warned))
  /\ th_done' = [th_done EXCEPT ![t] = @ + 1]
  /\ ThGoto(t, "idle")
  /\ UNCHANGED <<printed, th_call, th_printed>>
  /\ ThFrame

ThreadsNext ==
  \E t \in Threads :
    \/ ThCall(t) \/ ThTest(t) \/ ThAdd(t) \/ ThPrint(t)
    \/ ThSilentTest(t) \/ ThSilentAdd(t) \/ ThReturn(t) \/ ThRun(t)

SpecThreads == Init /\ [][ThreadsNext]_vars

\* What the call returns when no other call runs and the set is empty
AloneResult(c) == inflect(c.name, c.args, c.form, c.force_n, {}).ret

\* Every call a thread has finished returned what it returns alone
SameAsAlone ==
  \A t \in Threads :
    (th_pc[t] = "idle" /\ th_done[t] > 0) => th_ret[t] = AloneResult(th_call[t])

\* C7 as stated: under every interleaving of the threads' steps each call
\* returns what it returns when run alone, and the diagnostic of a name is
\* printed at most once.
C7_OncePerNameUnderThreads ==
  SameAsAlone /\ \A n \in AllNames : printed[n] <= 1

\* C7: under every interleaving of the threads' steps each call returns what
\* it returns when run alone, and each thread prints the diagnostic of a name
\* at most once, so a name is printed at most once per thread.
C7_OncePerNameAndThread ==
  /\ SameAsAlone
  /\ \A t \in Threads : \A n \in AllNames : th_printed[t][n] <= 1
  /\ \A n \in AllNames : printed[n] <= Cardinality(Threads)

\* Both threads printed the diagnostic of one name and returned the empty list
C7_BothThreadsPrinted ==
  /\ printed["fi-decl-foo"] = 2
  /\ \A t \in Threads :
       /\ th_pc[t] = "idle" /\ th_done[t] > 0
       /\ th_call[t].name = "fi-decl-foo" /\ th_ret[t] = <<>>

(***************************************************************************)
(* The paradigm codec: encode_paradigm, decode_paradigm,                   *)
(* valid_unknown_stem and is_guessable.  A stem is the word-specific slots *)
(* joined by "|"; a code is the class letter (N, V), the paradigm name     *)
(* without its fi-decl- or fi-conj- prefix and, for a word with consonant  *)
(* gradation, G, the strong grade, "-" and the weak grade.                 *)
(***************************************************************************)
\* A paradigm of the codec: the slots that make the stem, in order; whether
\* slots 2 and 3 hold the gradation; the slot of the stem vowel that follows
\* the gradation ("" if none); the ending a stem must have to inflect (<<>>
\* if any will do); whether its gradation is unpredictable
CodecParadigm(stemslots, grad, vowel, stem_end, deny) ==
  [stemslots |-> stemslots, grad |-> grad, vowel |-> vowel, stem_end |-> stem_end,
   deny |-> deny]

codec_paradigms ==
  (<<"N", <<"v", "a", "l", "o">>>> :> CodecParadigm(<<"1", "4", "5">>, TRUE, "4", <<>>, FALSE)) @@
  (<<"N", <<"k", "o", "i", "r", "a">>>> :> CodecParadigm(<<"1", "4">>, TRUE, "", <<>>, FALSE)) @@
  (<<"N", <<"p", "a", "l", "v", "e", "l", "u">>>> :> CodecParadigm(<<"1", "2">>, FALSE, "", <<>>, FALSE)) @@
  (<<"N", <<"p", "a", "r", "f", "a", "i", "t">>>> :> CodecParadigm(<<"1", "ill_sg_vowel", "2">>, FALSE, "", <<>>, FALSE)) @@
  (<<"N", <<"v", "a", "s", "e", "n">>>> :> CodecParadigm(<<>>, FALSE, "", <<>>, FALSE)) @@
  (<<"V", <<"s", "a", "a", "d", "a">>>> :> CodecParadigm(<<"1", "2">>, FALSE, "", <<>>, FALSE)) @@
  (<<"V", <<"k", "a", "t", "k", "e", "t", "a">>>> :> CodecParadigm(<<"1", "2", "3">>, FALSE, "", <<>>, FALSE)) @@
  (<<"V", <<"v", "a", "l", "i", "t", "a">>>> :> CodecParadigm(<<"1", "2">>, FALSE, "", <<"i">>, FALSE)) @@
  (<<"V", <<"t", "a", "i", "t", "a", "a">>>> :> CodecParadigm(<<"1", "2">>, FALSE, "", <<>>, TRUE)) @@
  (<<"V", <<"o", "l", "l", "a">>>> :> CodecParadigm(<<>>, FALSE, "", <<>>, TRUE))

CodecPrefix(class) == IF class = "V" THEN <<"f", "i", "-", "c", "o", "n", "j", "-">> ELSE <<"f", "i", "-", "d", "e", "c", "l", "-">>

\* The parts of a code: class letter, paradigm name, gradation
ParseCode(code) ==
  LET rest == Tail(code)
      n == SpanLen(rest, {"G"})
      grades == IF n = Len(rest) THEN <<>> ELSE SubSeq(rest, n + 2, Len(rest))
      m == SpanLen(grades, {"-"})
  IN [class |-> Head(code), short |-> SubSeq(rest, 1, n),
      strong |-> SubSeq(grades, 1, m),
      weak |-> IF m = Len(grades) THEN <<>> ELSE SubSeq(grades, m + 2, Len(grades))]

KnownCode(code) ==
  /\ code # NONE /\ code # <<>>
  /\ <<ParseCode(code).class, ParseCode(code).short>> \in DOMAIN codec_paradigms

ParadigmOf(code) == codec_paradigms[<<ParseCode(code).class, ParseCode(code).short>>]

\* sep.join(segs)
RECURSIVE JoinWith(_, _)
JoinWith(segs, sep) ==
  IF segs = <<>> THEN <<>>
  ELSE IF Len(segs) = 1 THEN segs[1]
  ELSE segs[1] \o <<sep>> \o JoinWith(Tail(segs), sep)

\* Trailing empty segments are left out
RECURSIVE TrimTrailingEmpty(_)
TrimTrailingEmpty(segs) ==
  IF segs # <<>> /\ Last(segs) = <<>> THEN TrimTrailingEmpty(Front(segs)) ELSE segs

\* The (stem, code) of args.  A word without gradation has its stem vowel
\* written into the first segment
encode_paradigm(args) ==
  LET name == args["template_name"]
      class == IF StartsWith(name, <<"f", "i", "-", "c", "o", "n", "j", "-">>) THEN "V" ELSE "N"
      short == SubSeq(name, Len(CodecPrefix(class)) + 1, Len(name))
      p == codec_paradigms[<<class, short>>]
      slot(k) == Get(args, k, <<>>)
      graded == p.grad /\ (slot("2") # <<>> \/ slot("3") # <<>>)
      seg(k) == IF ~p.grad \/ graded \/ p.vowel = "" THEN slot(k)
                ELSE IF k = "1" THEN slot("1") \o slot(p.vowel)
                ELSE IF k = p.vowel THEN <<>>
                ELSE slot(k)
      segs == [i \in 1..Len(p.stemslots) |-> seg(p.stemslots[i])]
  IN [stem |-> JoinWith(TrimTrailingEmpty(segs), "|"),
      code |-> <<class>> \o short \o
               (IF graded THEN <<"G">> \o slot("2") \o <<"-">> \o slot("3") ELSE <<>>)]

\* A wrong decode: the grades are taken in the other order
decode_paradigm_swapped(stem, code) ==
  LET c == ParseCode(code)
      p == ParadigmOf(code)
      segs == Split(stem, "|")
      n == IF Len(segs) < Len(p.stemslots) THEN Len(segs) ELSE Len(p.stemslots)
  IN [k \in {p.stemslots[i] : i \in 1..n} |->
        segs[CHOOSE i \in 1..n : p.stemslots[i] = k]]
     @@ (IF p.grad THEN ("2" :> c.weak) @@ ("3" :> c.strong) ELSE EmptyDict)
     @@ ("template_name" :> CodecPrefix(c.class) \o c.short)

\* The args of (stem, code): the segments of the stem go to the paradigm's
\* stem slots in order, the grades of the code to slots 2 and 3
decode_paradigm(stem, code) ==
  LET c == ParseCode(code)
      name == ("template_name" :> CodecPrefix(c.class) \o c.short)
  IN IF ~KnownCode(code) THEN name
     ELSE LET p == ParadigmOf(code)
              segs == Split(stem, "|")
              n == IF Len(segs) < Len(p.stemslots) THEN Len(segs) ELSE Len(p.stemslots)
          IN [k \in {p.stemslots[i] : i \in 1..n} |->
                segs[CHOOSE i \in 1..n : p.stemslots[i] = k]]
             @@ (IF p.grad THEN ("2" :> c.strong) @@ ("3" :> c.weak) ELSE EmptyDict)
             @@ name

\* A wrong check: the segments are only counted
SegmentsCounted(stem, p) == Len(Split(stem, "|")) = Len(p.stemslots)

\* The stem has as many segments as the paradigm has stem slots and, with
\* more than one slot, no segment is empty
SegmentsFit(stem, p) ==
  LET segs == Split(stem, "|")
  IN /\ Len(segs) = Len(p.stemslots)
     /\ Len(p.stemslots) > 1 => \A i \in 1..Len(segs) : segs[i] # <<>>

\* The first segment ends as words of the paradigm do
StemEndFits(stem, p) == EndsWith(Split(stem, "|")[1], p.stem_end)

valid_unknown_stem(stem, code) ==
  IF stem = NONE THEN FALSE
  ELSE IF code = NONE THEN stem # <<>>
  ELSE IF ~KnownCode(code) THEN FALSE
  ELSE SegmentsFit(stem, ParadigmOf(code)) /\ StemEndFits(stem, ParadigmOf(code))

\* A wrong deny-list check: no paradigm is held back
DenyNone(code) == FALSE

\* The paradigm is on the list of those with unpredictable gradation
Denied(code) == ParadigmOf(code).deny

is_guessable(stem, code) ==
  IF code = NONE THEN valid_unknown_stem(stem, code)
  ELSE KnownCode(code) /\ valid_unknown_stem(stem, code) /\ ~Denied(code)

\* The args encode_paradigm is called with
CodecArgs ==
  { ("template_name" :> <<"f", "i", "-", "d", "e", "c", "l", "-", "v", "a", "l", "o">>) @@ ("1" :> <<"v", "a", "l">>) @@ ("2" :> <<>>) @@ ("3" :> <<>>)
      @@ ("4" :> <<"o">>) @@ ("5" :> <<"a">>),
    ("template_name" :> <<"f", "i", "-", "d", "e", "c", "l", "-", "v", "a", "l", "o">>) @@ ("1" :> <<"l", "ä">>) @@ ("2" :> <<"m", "p">>) @@ ("3" :> <<"m", "m">>)
      @@ ("4" :> <<"ö">>) @@ ("5" :> <<"ä">>),
    ("template_name" :> <<"f", "i", "-", "d", "e", "c", "l", "-", "v", "a", "l", "o">>) @@ ("1" :> <<"t", "a", "l">>) @@ ("4" :> <<"o">>) @@ ("5" :> <<"a">>),
    ("template_name" :> <<"f", "i", "-", "d", "e", "c", "l", "-", "k", "o", "i", "r", "a">>) @@ ("1" :> <<"k", "o", "i", "r">>) @@ ("2" :> <<>>) @@ ("3" :> <<>>)
      @@ ("4" :> <<"a">>),
    ("template_name" :> <<"f", "i", "-", "d", "e", "c", "l", "-", "k", "o", "i", "r", "a">>) @@ ("1" :> <<"k", "u", "k">>) @@ ("2" :> <<"k">>) @@ ("3" :> <<>>)
      @@ ("4" :> <<"a">>),
    ("template_name" :> <<"f", "i", "-", "d", "e", "c", "l", "-", "p", "a", "l", "v", "e", "l", "u">>) @@ ("1" :> <<"p", "a", "l", "v", "e", "l", "u">>) @@ ("2" :> <<"a">>),
    ("template_name" :> <<"f", "i", "-", "d", "e", "c", "l", "-", "p", "a", "r", "f", "a", "i", "t">>) @@ ("1" :> <<"p", "a", "r", "f", "a", "i", "t">>) @@ ("2" :> <<"a">>)
      @@ ("ill_sg_vowel" :> <<"e">>),
    ("template_name" :> <<"f", "i", "-", "d", "e", "c", "l", "-", "v", "a", "s", "e", "n">>),
    ("template_name" :> <<"f", "i", "-", "c", "o", "n", "j", "-", "s", "a", "a", "d", "a">>) @@ ("1" :> <<"m", "y">>) @@ ("2" :> <<"ä">>) }

\* The stems and codes valid_unknown_stem and is_guessable are called with
CodecStems ==
  { NONE, <<>>, <<"f", "o", "o">>, <<"k", "o", "i", "r", "a">>, <<"i", "n", "v", "s", "t", "e", "m">>, <<"|">>, <<"k", "o", "i", "r", "|", "a">>, <<"k", "o", "i", "r", "|", "|", "a">>, <<"t", "a", "l", "|", "o", "|", "a">>, <<"t", "a", "i", "|", "a">>,
    <<"v", "a", "l", "i", "|", "a">>, <<"v", "a", "l", "|", "a">>, <<"k", "a", "t", "k", "|", "a">>, <<"k", "a", "t", "k", "|", "e", "|", "a">>, <<"|", "e", "|", "a">> }

CodecCodes ==
  { NONE, <<"N", "k", "o", "i", "r", "a">>, <<"N", "k", "o", "i", "r", "a", "G", "k", "-">>, <<"N", "v", "a", "l", "o">>, <<"N", "u", "n", "k", "n", "o", "w", "n", "p", "a", "r", "a">>, <<"V", "v", "a", "l", "i", "t", "a">>, <<"V", "k", "a", "t", "k", "e", "t", "a">>,
    <<"V", "t", "a", "i", "t", "a", "a">>, <<"V", "o", "l", "l", "a">> }

CodecFrame ==
  UNCHANGED ptVars /\ UNCHANGED callVars /\ UNCHANGED thVars /\ UNCHANGED stVars

Encode ==
  \E a \in CodecArgs :
    /\ cd_op' = "encode_paradigm"
    /\ cd_args' = a
    /\ cd_stem' = encode_paradigm(a).stem
    /\ cd_code' = encode_paradigm(a).code
    /\ cd_decoded' = EmptyDict
    /\ cd_bool' = FALSE
    /\ CodecFrame

\* decode_paradigm is called with what encode_paradigm returned
Decode ==
  /\ cd_op = "encode_paradigm"
  /\ cd_op' = "decode_paradigm"
  /\ cd_decoded' = decode_paradigm(cd_stem, cd_code)
  /\ UNCHANGED <<cd_args, cd_stem, cd_code, cd_bool>>
  /\ CodecFrame

ValidUnknownStem ==
  \E stem \in CodecStems, code \in CodecCodes :
    /\ cd_op' = "valid_unknown_stem"
    /\ cd_stem' = stem
    /\ cd_code' = code
    /\ cd_bool' = valid_unknown_stem(stem, code)
    /\ cd_args' = EmptyDict
    /\ cd_decoded' = EmptyDict
    /\ CodecFrame

IsGuessable ==
  \E stem \in CodecStems, code \in CodecCodes :
    /\ cd_op' = "is_guessable"
    /\ cd_stem' = stem
    /\ cd_code' = code
    /\ cd_bool' = is_guessable(stem, code)
    /\ cd_args' = EmptyDict
    /\ cd_decoded' = EmptyDict
    /\ CodecFrame

CodecNext == Encode \/ Decode \/ ValidUnknownStem \/ IsGuessable

SpecCodec == Init /\ [][CodecNext]_vars

\* The slots and markers encode_paradigm writes into the stem or the code
CodecKeys == {"1", "2", "3", "4", "5", "ill_sg_vowel"}

\* The paradigm of the args that were encoded
EncodedParadigm ==
  LET name == cd_args["template_name"]
  IN codec_paradigms[<<IF StartsWith(name, <<"f", "i", "-", "c", "o", "n", "j", "-">>) THEN "V" ELSE "N",
                       SubSeq(name, 9, Len(name))>>]

StemShapeFits ==
  LET want == Len(ParadigmOf(cd_code).stemslots)
      segs == Split(cd_stem, "|")
  IN /\ Len(segs) = want
     /\ want > 1 => \A i \in 1..Len(segs) : Len(segs[i]) > 0

Pending(calls) ==
  /\ PTIdle /\ ThreadsIdle /\ CodecIdle /\ StackIdle
  /\ undef_decl_warned = {}
  /\ printed = [n \in AllNames |-> 0]
  /\ op = ""
  /\ call \in calls
  /\ ret = <<>>
  /\ args_after = EmptyDict

\* The dict d and the key k with value v, unless v is NONE (the key is absent)
WithKey(d, k, v) == IF v = NONE THEN d ELSE (k :> v) @@ d

(***************************************************************************)
(* inflect_nominal for words with number markers                           *)
(***************************************************************************)
\* Values of args["n"]: absent, the ten the code knows, one padded with a
\* space and one it does not know
NValues ==
  {NONE, <<"p">>, <<"p", "l">>, <<"P", "l">>, <<"p", "l", "u", "r", "a", "l">>, <<"P", "l", "u", "r", "a", "l">>, <<"s">>, <<"s", "g">>, <<"S", "g">>, <<"s", "i", "n", "g", "u", "l", "a", "r">>, <<"S", "i", "n", "g", "u", "l", "a", "r">>,
   <<" ", "p", "l">>, <<"d", "u", "a", "l">>}

\* Values of args["nopl"] and args["nosg"]
FlagValues == {NONE, <<"0">>, <<"1">>}

NumberForms == {"", "gen-sg", "gen-pl", "cmt"}

NumberCalls ==
  {[NoCall EXCEPT !.name = Word.koira[1],
                  !.args = WithKey(WithKey(WithKey(Word.koira[2], "n", n), "nopl", nopl),
                                   "nosg", nosg),
                  !.form = <<"", "", f, "", "">>,
                  !.force_n = force_n] :
     n \in NValues, nopl \in FlagValues, nosg \in FlagValues, f \in NumberForms,
     force_n \in BOOLEAN}

NominalInit == Pending(NumberCalls)

NominalApply ==
  /\ op = ""
  /\ Returns("inflect_nominal", call,
             inflect_nominal(call.name, call.args, call.form[3], call.form[2],
                             call.form[4], call.form[5], call.force_n,
                             undef_decl_warned))

NominalNext == NominalApply

SpecNominal == NominalInit /\ [][NominalNext]_vars

\* The markers say that the word occurs in the plural only
MarkedPluralOnly(args) ==
  \/ Get(args, "n", NONE) \in {<<"p">>, <<"p", "l">>, <<"P", "l">>, <<"p", "l", "u", "r", "a", "l">>, <<"P", "l", "u", "r", "a", "l">>}
  \/ Get(args, "nosg", <<"0">>) # <<"0">>

\* The markers say that the word occurs in the singular only
MarkedSingularOnly(args) ==
  \/ Get(args, "n", NONE) \in {<<"s">>, <<"s", "g">>, <<"S", "g">>, <<"s", "i", "n", "g", "u", "l", "a", "r">>, <<"S", "i", "n", "g", "u", "l", "a", "r">>}
  \/ Get(args, "nopl", <<"0">>) # <<"0">>

\* The singular and the plural case forms: "" is the nominative singular
SingularForms == {"", "gen-sg", "ill-sg", "tra-sg"}

PluralForms == {"gen-pl"}

\* args without the three markers
Unmarked(args) == [k \in DOMAIN args \ {"n", "nopl", "nosg"} |-> args[k]]

\* C11 as stated: inflect_nominal with force_n false returns the empty list
\* for a singular form of a word marked plural-only and for a plural form of
\* a word marked singular-only; with force_n true the markers never empty
\* the result (it is what the word without markers gives).
C11_NumberConflictReturnsEmpty ==
  op = "inflect_nominal" =>
    /\ (/\ ~call.force_n
        /\ \/ MarkedPluralOnly(call.args) /\ call.form[3] \in SingularForms
           \/ MarkedSingularOnly(call.args) /\ call.form[3] \in PluralForms)
       => ret = <<>>
    /\ call.force_n =>
         /\ ret # <<>>
         /\ ret = inflect_nominal(call.name, Unmarked(call.args), call.form[3],
                                  call.form[2], call.form[4], call.form[5], TRUE,
                                  {}).ret

(***************************************************************************)
(* inflect for names of each table and of none, with and without verb form *)
(***************************************************************************)
RouteWords == {"koira", "kala", "valo", "saada", "kumajaa", "foo", "bar"}

RouteForms ==
  {<<vform, "", case, "", clitic>> :
     vform \in {"", "inf1", "pres-1sg", "pres-part"}, case \in {"", "gen-sg"},
     clitic \in {"", "kin"}}

RouteCalls ==
  {[NoCall EXCEPT !.name = Word[w][1], !.args = Word[w][2], !.form = f] :
     w \in RouteWords, f \in RouteForms}

InflectInit == Pending(RouteCalls)

InflectApply ==
  /\ op = ""
  /\ Returns("inflect", call,
             inflect(call.name, call.args, call.form, call.force_n, undef_decl_warned))

InflectNext == InflectApply

SpecInflect == InflectInit /\ [][InflectNext]_vars

\* The facade the request is for: the verbal one when a verb form is asked
RoutedTo(form) == IF form[1] # "" THEN "inflect_verbal" ELSE "inflect_nominal"

\* C12: inflect gives what inflect_verbal gives exactly when the verb form
\* is not empty and what inflect_nominal gives otherwise, and a name the
\* facade it is routed to does not know (a nominal name with a verb form, a
\* verbal name without one, a name in no table) gives the empty list.
C12_RoutedByVerbForm ==
  op = "inflect" =>
    /\ call.name \in CONJ_DECL_NAMES =>
         ret = IF call.form[1] # ""
               THEN inflect_verbal(call.name, call.args, call.form[1], call.form[2],
                                   call.form[3], call.form[4], call.form[5], {}).ret
               ELSE inflect_nominal(call.name, call.args, call.form[3], call.form[2],
                                    call.form[4], call.form[5], call.force_n, {}).ret
    /\ UnknownName(RoutedTo(call.form), call.name) => ret = <<>>
    /\ (call.form[1] = "" /\ ~UnknownName("inflect_nominal", call.name)) => ret # <<>>

\* A nominal name was asked for a verb form, with a case that the nominal
\* facade would have inflected
C12_NominalNameWithVerbForm ==
  /\ op = "inflect" /\ call.name = "fi-decl-koira"
  /\ call.form[1] = "inf1" /\ call.form[3] = "gen-sg"
  /\ ret = <<>>
  /\ undef_decl_warned = {"fi-decl-koira"}

(***************************************************************************)
(* inflect_using for compound paradigms, missing slots, exception values   *)
(* and template variants                                                   *)
(***************************************************************************)
UsingWord ==
  [ split    |-> Word.split,
    dashed   |-> <<Word.split[1], ("space" :> <<"-">>) @@ Word.split[2]>>,
    lastspan |-> <<"fi-decl-valo-koira",
                   ("6" :> <<"k", "o", "i", "r">>) @@ ("7" :> <<>>) @@ ("8" :> <<>>) @@ ("9" :> <<"a">>)>>,
    pelko    |-> <<"fi-decl-valo",
                   ("1" :> <<"p", "e", "l">>) @@ ("2" :> <<"k">>) @@ ("3" :> <<>>) @@ ("4" :> <<"o">>)>>,
    kylmempi |-> <<"fi-decl-vanhempi",
                   ("1" :> <<"k", "y", "l", "m", "e">>) @@ ("2" :> <<>>) @@ ("3" :> <<>>) @@ ("4" :> <<>>)>>,
    vanhempi |-> <<"fi-decl-vanhempi",
                   ("1" :> <<"v">>) @@ ("2" :> <<"a">>) @@ ("3" :> <<"n", "h">>) @@ ("4" :> <<"e">>)>>,
    kala     |-> Word.kala,
    koira    |-> Word.koira,
    legacy   |-> <<"fi-decl-pron",
                   ("nom_sg" :> <<"h", "ä", "n">>) @@ ("1s" :> <<"s", "e">>) @@ ("2s" :> <<"h", "ä", "n", "e", "n">>)
                   @@ ("15p" :> <<"h", "e", "i", "n", "e", "e", "n">>) @@ ("com_pl" :> <<"n", "i", "i", "n", "e", "e", "n">>)>>,
    pron     |-> Word.pron,
    more     |-> <<"fi-decl-pron",
                   ("gen_sg" :> <<"h", "ä", "n", "e", "n">>) @@ ("gen_sg2" :> <<"s", "e", "n", ",", " ", "h", "ä", "n", "e", "n">>) @@ ("gen_sg4" :> <<"t", "ä", "m", "ä", "n">>)
                   @@ ("cmt" :> <<"h", "e", "i", "n", "e", "e", "n", ",", " ", "-">>)>>,
    short    |-> <<"fi-decl-pron", ("gen_sg" :> <<"n">>) @@ ("cmt" :> <<"e", "n">>)>>,
    olut     |-> Word.olut,
    dna      |-> Word.dna,
    nostem   |-> Word.nostem,
    foo      |-> Word.foo ]

UsingForms == {"", "gen-sg", "gen-pl", "tra-sg", "cmt", "comp"}

UsingInputs ==
  {[NoCall EXCEPT !.name = UsingWord[w][1], !.args = UsingWord[w][2], !.decls = "noun",
                  !.uform = f, !.use_poss = use_poss, !.use_clitic = use_clitic] :
     w \in DOMAIN UsingWord, f \in UsingForms, use_poss \in BOOLEAN,
     use_clitic \in BOOLEAN}

UsingInit == Pending(UsingInputs)

UsingReturns(u) == Returns("inflect_using", call,
                           Outcome(u.results, undef_decl_warned, <<>>, u.caller))

UsingApply ==
  /\ op = ""
  /\ UsingReturns(inflect_using(Decls(call.decls), call.name, call.args, call.uform,
                                call.use_poss, call.use_clitic))

UsingNext == UsingApply

SpecUsing == UsingInit /\ [][UsingNext]_vars

\* The call of inflect_using came to the loop over the spans of a split
SplitCall ==
  /\ op = "inflect_using"
  /\ MappedName(call.name) \in DOMAIN Decls(call.decls)
  /\ CalledDecl.split # <<>>
  /\ (call.uform # "" \/ "word" \notin DOMAIN call.args)

\* The result list of each span of the split, in span order
SpanLists ==
  LET split == CalledDecl.split
  IN [k \in 1..(Len(split) \div 2) |->
        SpanResults(Decls(call.decls), split, LocalArgs(CalledDecl, call.args),
                    call.uform, call.use_poss, call.use_clitic, 2 * (k - 1))]

\* The ordered Cartesian product of the lists, each combination joined by space
RECURSIVE CartesianJoin(_, _)
CartesianJoin(lists, space) ==
  IF Len(lists) = 1 THEN lists[1]
  ELSE LET before == CartesianJoin(Front(lists), space)
           last == Last(lists)
       IN [n \in 1..(Len(before) * Len(last)) |->
             before[((n - 1) \div Len(last)) + 1] \o space
             \o last[((n - 1) % Len(last)) + 1]]

\* C13 as stated: for a split paradigm inflect_using returns the ordered
\* Cartesian product of the result lists of the spans, joined by
\* args["space"] (one space by default): as many entries as the product of
\* the counts, so none when a span has no result.
C13_SplitIsCartesianProduct ==
  SplitCall =>
    /\ ret = CartesianJoin(SpanLists, Get(call.args, "space", <<" ">>))
    /\ (\E k \in 1..Len(SpanLists) : SpanLists[k] = <<>>) => ret = <<>>

\* The call of inflect_using found a declension of more than one slot whose
\* final slot args does not hold, under the integer or the string key
FinalSlotMissing ==
  /\ op = "inflect_using"
  /\ MappedName(call.name) \in DOMAIN Decls(call.decls)
  /\ CalledDecl.nargs > 1
  /\ ~HasSlot(call.args, CalledDecl.nargs)

\* The slots 1..nargs-1 of the call, one after the other
PrecedingSlots ==
  Join([j \in 1..(CalledDecl.nargs - 1) |-> SlotOr(call.args, j)])

\* C14 as stated: when the declension takes more than one slot and the final
\* one is missing, the call returns what it returns with the final slot set
\* to "a" or "ä" by the vowel harmony of the concatenation of the slots
\* 1..nargs-1.
C14_FinalSlotFromPrecedingSlots ==
  FinalSlotMissing =>
    ret = inflect_using(Decls(call.decls), call.name,
                        SetKey(call.args, IntKey(Str(CalledDecl.nargs)),
                               word_to_aae(PrecedingSlots)),
                        call.uform, call.use_poss, call.use_clitic).results

\* The call of inflect_using found a declension that is not split, args has
\* no key of the underscore-spelled form and has a legacy alternate key of it
LegacyCall ==
  /\ op = "inflect_using"
  /\ MappedName(call.name) \in DOMAIN Decls(call.decls)
  /\ CalledDecl.split = <<>>
  /\ FormArg(call.uform) \notin DOMAIN call.args
  /\ call.uform \in DOMAIN argument_name_map
  /\ \E i \in 1..Len(argument_name_map[call.uform]) :
        argument_name_map[call.uform][i] \in DOMAIN call.args

\* The legacy alternate keys of the form that hold a non-empty value, in
\* table order
NonEmptyAlternates ==
  SelectSeq(argument_name_map[call.uform],
            LAMBDA k : Get(call.args, k, <<>>) # <<>>)

\* C15 as stated: with no value under the underscore-spelled key and a legacy
\* alternate key in args, the call returns what the first non-empty alternate
\* alone gives after the cleanup made without a possessive, whether or not a
\* possessive is asked for, and nothing when every alternate is empty; no
\* template is run.
C15_FirstLegacyAlternateOnly ==
  LegacyCall =>
    ret = IF NonEmptyAlternates = <<>> THEN <<>>
          ELSE add_exception(call.args[NonEmptyAlternates[1]], <<>>,
                             MappedName(call.name), call.uform, FALSE)

\* The call of inflect_using found a declension that is not split and args
\* holds a non-empty exception value for the form
ExceptionCall ==
  /\ op = "inflect_using"
  /\ MappedName(call.name) \in DOMAIN Decls(call.decls)
  /\ CalledDecl.split = <<>>
  /\ Get(call.args, FormArg(call.uform), <<>>) # <<>>

\* Every alternative of alts that is a form joins results; one that is empty
\* or a dash, or that cannot take the possessive, is left out and the
\* alternatives after it are still read
RECURSIVE KeptAlternatives(_, _, _, _)
KeptAlternatives(alts, results, form, use_poss) ==
  IF alts = <<>> THEN results
  ELSE LET a == ExceptionAlt(Head(alts), form, use_poss)
       IN KeptAlternatives(Tail(alts),
                           IF a.kind = "add" THEN AddUnique(results, a.v)
                           ELSE results,
                           form, use_poss)

\* The alternatives of the values under keys, in order, none twice
RECURSIVE KeptExceptions(_, _, _, _, _, _)
KeptExceptions(keys, args, results, name, form, use_poss) ==
  IF keys = <<>> THEN results
  ELSE LET v == clean_exception(RemoveAll(IF name # "fi-decl-pron"
                                          THEN RemovePronouns(Get(args, Head(keys), <<>>))
                                          ELSE Get(args, Head(keys), <<>>),
                                          <<"(", "*", ")">>))
       IN KeptExceptions(Tail(keys), args,
                         IF Get(args, Head(keys), <<>>) = <<>>
                            \/ StartsWith(v, <<"/">>) \/ EndsWith(v, <<"/">>)
                         THEN results
                         ELSE KeptAlternatives(Split(v, ","), results, form, use_poss),
                         name, form, use_poss)

\* C16 as stated: with a non-empty exception value for the form the call
\* returns every comma-separated alternative of the value and of its
\* continuations 2-4 after cleanup, none twice and in their order; an empty
\* alternative or a dash is left out and the alternatives after it are kept.
C16_EveryAlternativeKept ==
  ExceptionCall =>
    ret = KeptExceptions(<<FormArg(call.uform), FormArg(call.uform) \o "2",
                           FormArg(call.uform) \o "3", FormArg(call.uform) \o "4">>,
                         call.args, <<>>, MappedName(call.name), call.uform,
                         call.use_poss)

\* What the templates give for the call, run in order
TemplatesRun(templates) ==
  RunTemplates(templates, LocalArgs(CalledDecl, call.args),
               IF call.uform = "ill-sg"
               THEN Get(LocalArgs(CalledDecl, call.args), "ill_sg_vowel", NONE) ELSE NONE,
               IF call.uform = "ill-sg"
               THEN Get(LocalArgs(CalledDecl, call.args), "ill_sg_vowel2", NONE) ELSE NONE,
               <<>>)

\* The clitic-only variant of the form is asked for and declared
CliticVariantApplies ==
  /\ call.use_clitic /\ ~call.use_poss
  /\ (call.uform \o "-clitic") \in DOMAIN CalledDecl.forms

\* The possessive variant of the form is asked for and declared
PossVariantApplies ==
  /\ call.use_poss
  /\ (call.uform \o "-poss") \in DOMAIN CalledDecl.forms

\* C17: when no exception applies, the clitic-only variant of the form is
\* run when a clitic is asked for without a possessive and the variant is
\* declared; else the possessive variant when a possessive is asked for and
\* the variant is declared; else the plain templates of the form; and when
\* neither an applicable variant nor the plain form is declared the result
\* is the empty list.
C17_TemplatePriority ==
  TemplateLoopCall =>
    /\ CliticVariantApplies =>
         ret = TemplatesRun(CalledDecl.forms[call.uform \o "-clitic"])
    /\ (~CliticVariantApplies /\ PossVariantApplies) =>
         ret = TemplatesRun(CalledDecl.forms[call.uform \o "-poss"])
    /\ (~CliticVariantApplies /\ ~PossVariantApplies
        /\ call.uform \in DOMAIN CalledDecl.forms) =>
         ret = TemplatesRun(CalledDecl.forms[call.uform])
    /\ (~CliticVariantApplies /\ ~PossVariantApplies
        /\ call.uform \notin DOMAIN CalledDecl.forms) =>
         ret = <<>>

\* A clitic-only variant was preferred to the plain templates of the form
C17_CliticVariantChosen ==
  /\ TemplateLoopCall
  /\ CliticVariantApplies
  /\ call.uform \in DOMAIN CalledDecl.forms
  /\ ret = <<<<"D", "N", "A", ":">>>>

\* C17 as stated: the priority above, and the result is empty only when
\* neither an applicable variant nor the plain form is declared.
C17_EmptyOnlyWhenUndeclared ==
  /\ C17_TemplatePriority
  /\ (TemplateLoopCall /\ ret = <<>>) =>
       (~CliticVariantApplies /\ ~PossVariantApplies
        /\ call.uform \notin DOMAIN CalledDecl.forms)

\* C18 as stated: no list returned by inflect, inflect_nominal,
\* inflect_verbal or inflect_using holds the empty string or the failure
\* value None.
C18_NoEmptyStringReturned ==
  (op \in {"inflect", "inflect_nominal", "inflect_verbal", "inflect_using"}
   /\ ret # RAISED) =>
    \A i \in 1..Len(ret) : ret[i] # <<>> /\ ret[i] # NONE

(***************************************************************************)
(* One call of inflect, statement by statement.  stack holds a frame for   *)
(* inflect and for every call of inflect_verbal, inflect_nominal and       *)
(* inflect_using it is waiting for; a frame keeps the arguments and the    *)
(* locals of its call, pc is where it goes on and got is what the call it  *)
(* waited for returned.                                                    *)
(***************************************************************************)
\* The frames a call may have in progress at once
MaxDepth == 6

NoFrame ==
  [fn |-> "", decls |-> "", name |-> "", args |-> EmptyDict, vform |-> "",
   comp |-> "", form |-> "", poss |-> "", clitic |-> "", force_n |-> FALSE,
   use_poss |-> FALSE, use_clitic |-> FALSE, pc |-> "start", i |-> 0,
   todo |-> <<>>, results |-> <<>>, got |-> <<>>]

\* inflect(args, form, force_n) with form = (vform, comp, case, poss, clitic)
InflectFrame(name, args, form, force_n) ==
  [NoFrame EXCEPT !.fn = "inflect", !.name = name, !.args = args,
                  !.vform = form[1], !.comp = form[2], !.form = form[3],
                  !.poss = form[4], !.clitic = form[5], !.force_n = force_n]

\* inflect_verbal(name, args, vform, comp, case, poss, clitic)
VerbalFrame(name, args, vform, comp, case, poss, clitic) ==
  [NoFrame EXCEPT !.fn = "inflect_verbal", !.name = name, !.args = args,
                  !.vform = vform, !.comp = comp, !.form = case, !.poss = poss,
                  !.clitic = clitic]

\* inflect_nominal(name, args, form, comp, poss, clitic, force_n)
NominalFrame(name, args, form, comp, poss, clitic, force_n) ==
  [NoFrame EXCEPT !.fn = "inflect_nominal", !.name = name, !.args = args,
                  !.form = form, !.comp = comp, !.poss = poss, !.clitic = clitic,
                  !.force_n = force_n]

\* inflect_using(decls, name, args, form, use_poss, use_clitic)
UsingFrame(decls, name, args, form, use_poss, use_clitic) ==
  [NoFrame EXCEPT !.fn = "inflect_using", !.decls = decls, !.name = name,
                  !.args = args, !.form = form, !.use_poss = use_poss,
                  !.use_clitic = use_clitic]

\* The innermost call and the calls that wait for it
Top == stack[Len(stack)]

Waiting == SubSeq(stack, 1, Len(stack) - 1)

\* The innermost call is at pc of fn
At(fn, pc) == stack # <<>> /\ Top.fn = fn /\ Top.pc = pc

\* Every step of the call is counted
StepFrame ==
  /\ steps' = steps + 1
  /\ UNCHANGED ptVars /\ UNCHANGED thVars /\ UNCHANGED cdVars

Quiet == UNCHANGED <<undef_decl_warned, printed>>

\* The innermost call goes on as frame
Goto(frame) ==
  /\ stack' = Append(Waiting, frame)
  /\ UNCHANGED <<op, call, ret, args_after>>

\* The innermost call, now frame, calls child and waits for it
Push(frame, child) ==
  /\ Len(stack) < MaxDepth
  /\ stack' = Waiting \o <<frame, child>>
  /\ UNCHANGED <<op, call, ret, args_after>>

\* The innermost call returns v (or raises, v = RAISED) to the call that
\* waits for it; the call of inflect returns to its caller
Return(v) ==
  IF Len(stack) = 1
  THEN /\ stack' = <<>>
       /\ op' = "inflect"
       /\ ret' = v
       /\ args_after' = call.args
       /\ UNCHANGED call
  ELSE /\ stack' = Append(SubSeq(stack, 1, Len(stack) - 2),
                          [stack[Len(stack) - 1] EXCEPT !.got = v])
       /\ UNCHANGED <<op, call, ret, args_after>>

\* A wrong table: every span of the compound declension names the compound
\* declension itself as the declension of the span
SpanNameItself(split, i) == "fi-decl-valo-koira"

\* new_name of the span i (0, 2, ...) of a split declension
SpanName(split, i) == split[i + 2]

\* The calls of inflect that are made
StepWords == {"koira", "kala", "uusi", "split", "saada", "kumajaa", "foo"}

StepForms ==
  {<<vform, comp, case, "", clitic>> :
     vform \in {"", "inf1", "pres-part"}, comp \in {"", "comp"},
     case \in {"", "gen-sg"}, clitic \in {"", "kin"}}

StepCalls ==
  {[NoCall EXCEPT !.name = Word[w][1], !.args = Word[w][2], !.form = f] :
     w \in StepWords, f \in StepForms}

StepsInit == Pending(StepCalls)

\* inflect is called
Call ==
  /\ stack = <<>> /\ op = ""
  /\ stack' = <<InflectFrame(call.name, call.args, call.form, call.force_n)>>
  /\ UNCHANGED <<op, call, ret, args_after>>
  /\ Quiet /\ StepFrame

\* inflect knows the name and the form passes its asserts: it calls
\* inflect_verbal or inflect_nominal
InflectForwards ==
  /\ At("inflect", "start")
  /\ Top.name \in CONJ_DECL_NAMES
  /\ Top.vform \in VERB_FORMS /\ Top.comp \in COMPARATIVE_FORMS
  /\ Top.form \in CASE_FORMS /\ Top.poss \in POSSESSIVE_FORMS
  /\ Top.clitic \in CLITIC_FORMS \cup {"__dummy__"}

\* inflect up to its call of inflect_verbal or inflect_nominal
InflectBody ==
  /\ At("inflect", "start")
  /\ StepFrame
  /\ IF Top.name \notin CONJ_DECL_NAMES
     THEN /\ undef_decl_warned' = undef_decl_warned \cup {Top.name}
          /\ printed' = IF Top.name \in undef_decl_warned THEN printed
                        ELSE [printed EXCEPT ![Top.name] = @ + 1]
          /\ Return(<<>>)
     ELSE /\ Quiet
          /\ IF ~InflectForwards THEN Return(RAISED)
             ELSE IF Top.vform # ""
             THEN Push([Top EXCEPT !.pc = "return"],
                       VerbalFrame(Top.name, Top.args, Top.vform, Top.comp, Top.form,
                                   Top.poss, Top.clitic))
             ELSE Push([Top EXCEPT !.pc = "return"],
                       NominalFrame(Top.name, Top.args, Top.form, Top.comp, Top.poss,
                                    Top.clitic, Top.force_n))

\* inflect returns what the function it called returned
InflectReturn ==
  /\ At("inflect", "return")
  /\ Quiet /\ StepFrame
  /\ Return(Top.got)

\* inflect_verbal knows the name and the form passes its asserts: it calls
\* inflect_using
VerbalInflects ==
  /\ At("inflect_verbal", "start")
  /\ Top.name \in DOMAIN verb_conjs
  /\ Top.vform \in VERB_FORMS /\ Top.poss \in POSSESSIVE_FORMS
  /\ Top.comp \in COMPARATIVE_FORMS
  /\ Top.clitic \in CLITIC_FORMS \cup {"__dummy__"}

\* inflect_verbal up to its call of inflect_using
VerbalBody ==
  /\ At("inflect_verbal", "start")
  /\ StepFrame
  /\ IF Top.name \notin DOMAIN verb_conjs
     THEN /\ undef_decl_warned' = undef_decl_warned \cup {Top.name}
          /\ UNCHANGED printed
          /\ Return(<<>>)
     ELSE /\ Quiet
          /\ IF ~VerbalInflects THEN Return(RAISED)
             ELSE Push([Top EXCEPT !.pc = "used",
                                   !.args = DefaultSlot2(Top.name, Top.args).args,
                                   !.vform = VerbalForm(Top.vform),
                                   !.poss = VerbalPoss(Top.vform, Top.poss)],
                       UsingFrame("verb", Top.name,
                                  DefaultSlot2(Top.name, Top.args).args,
                                  VerbalForm(Top.vform),
                                  Top.form # "" \/ VerbalPoss(Top.vform, Top.poss) # "",
                                  Top.clitic # ""))

\* inflect_verbal after inflect_using: the results are declined one by one,
\* or they get the possessive suffix and the clitic and are returned
VerbalUsed ==
  /\ At("inflect_verbal", "used")
  /\ Quiet /\ StepFrame
  /\ IF Top.got = RAISED THEN Return(RAISED)
     ELSE IF Top.form # "" \/ Top.vform \in NominalVerbForms
     THEN Goto([Top EXCEPT !.pc = "loop", !.todo = Top.got, !.results = <<>>])
     ELSE Return(add_clitic(add_possessive(Top.got, Top.vform, Top.poss), Top.clitic))

\* The loop of inflect_verbal has a result to decline: it calls inflect_nominal
DeclineInflects ==
  /\ At("inflect_verbal", "loop")
  /\ Top.todo # <<>>
  /\ VerbalDerive(Top.vform, Head(Top.todo)).kind = "go"

\* The loop of inflect_verbal over the results of the verb form
VerbalDecline ==
  /\ At("inflect_verbal", "loop")
  /\ Quiet /\ StepFrame
  /\ IF Top.todo = <<>> THEN Return(Top.results)
     ELSE LET d == VerbalDerive(Top.vform, Head(Top.todo))
          IN IF DeclineInflects
             THEN Push([Top EXCEPT !.pc = "declined", !.name = d.name,
                                   !.args = d.args],
                       NominalFrame(d.name, d.args, Top.form, Top.comp, Top.poss,
                                    Top.clitic, FALSE))
             ELSE IF d.kind = "raise" THEN Return(RAISED)
             ELSE Goto([Top EXCEPT !.todo = Tail(Top.todo)])

\* results2.extend(ret)
VerbalDeclined ==
  /\ At("inflect_verbal", "declined")
  /\ Quiet /\ StepFrame
  /\ IF Top.got = RAISED THEN Return(RAISED)
     ELSE Goto([Top EXCEPT !.pc = "loop", !.todo = Tail(Top.todo),
                           !.results = Top.results \o Top.got])

\* The asserts of inflect_nominal pass
NominalAsserted ==
  /\ Top.form \in CASE_FORMS /\ Top.comp \in COMPARATIVE_FORMS
  /\ Top.poss \in POSSESSIVE_FORMS
  /\ Top.clitic \in CLITIC_FORMS \cup {"__dummy__"}

\* inflect_nominal knows the name, its asserts pass and the number of the
\* form is allowed: it calls inflect_using
NominalInflects ==
  /\ At("inflect_nominal", "start")
  /\ (Top.name \in DOMAIN noun_decls \/ Top.name \in DOMAIN decl_name_map)
  /\ NominalAsserted
  /\ ~NumberConflict(Top.args, Top.form, Top.force_n)

\* inflect_nominal up to its first call of inflect_using
NominalBody ==
  /\ At("inflect_nominal", "start")
  /\ StepFrame
  /\ IF Top.name \notin DOMAIN noun_decls /\ Top.name \notin DOMAIN decl_name_map
     THEN /\ undef_decl_warned' = undef_decl_warned \cup {Top.name}
          /\ UNCHANGED printed
          /\ Return(<<>>)
     ELSE /\ Quiet
          /\ IF ~NominalAsserted THEN Return(RAISED)
             ELSE IF ~NominalInflects THEN Return(<<>>)
             ELSE LET comp == NominalComp(Top.args, Top.comp)
                      poss == NominalPoss(Top.args, Top.form, Top.poss)
                  IN Push([Top EXCEPT !.pc = "used", !.comp = comp, !.poss = poss],
                          UsingFrame("noun", Top.name, Top.args,
                                     IF comp # "" THEN comp ELSE Top.form,
                                     comp = "" /\ poss # "",
                                     comp = "" /\ Top.clitic # ""))

\* inflect_nominal after its first call of inflect_using
NominalUsed ==
  /\ At("inflect_nominal", "used")
  /\ Quiet /\ StepFrame
  /\ IF Top.got = RAISED THEN Return(RAISED)
     ELSE IF Top.comp \in {"manner", "comp-manner", "sup-manner"}
     THEN Goto([Top EXCEPT !.pc = "finish", !.results = Top.got])
     ELSE IF Top.comp # ""
     THEN Goto([Top EXCEPT !.pc = "comp", !.todo = Top.got, !.results = <<>>])
     ELSE Goto([Top EXCEPT !.pc = "finish",
                           !.results = CutFinalI(Top.got, Top.args, Top.form, Top.poss)])

\* The loop of inflect_nominal has a result to inflect: it calls inflect_using
CompareInflects ==
  /\ At("inflect_nominal", "comp")
  /\ Top.todo # <<>>
  /\ CompAsserted(Head(Top.todo), Top.comp)

\* The loop of inflect_nominal over results1: the result is inflected in the
\* declension of its degree
NominalCompare ==
  /\ At("inflect_nominal", "comp")
  /\ Quiet /\ StepFrame
  /\ IF Top.todo = <<>> THEN Goto([Top EXCEPT !.pc = "finish"])
     ELSE IF ~CompareInflects THEN Return(RAISED)
     ELSE LET name == CompName(Top.comp, Top.name)
              args == CompArgs(CompStem(Head(Top.todo), Top.comp))
          IN Push([Top EXCEPT !.pc = "compared", !.name = name, !.args = args],
                  UsingFrame("noun", name, args, Top.form, Top.poss # "",
                             Top.clitic # ""))

\* results.extend(ret)
NominalCompared ==
  /\ At("inflect_nominal", "compared")
  /\ Quiet /\ StepFrame
  /\ IF Top.got = RAISED THEN Return(RAISED)
     ELSE Goto([Top EXCEPT !.pc = "comp", !.todo = Tail(Top.todo),
                           !.results = Top.results \o Top.got])

\* inflect_nominal from e=1 on: the final e, the possessive suffix, the clitic
NominalFinish ==
  /\ At("inflect_nominal", "finish")
  /\ Quiet /\ StepFrame
  /\ Return(Suffixed(AddFinalE(Top.results, Top.args, Top.form), Top.form, Top.poss,
                     Top.clitic, undef_decl_warned, Top.args).ret)

\* inflect_using up to the loop over the spans of a split declension; a
\* declension that is not split is inflected and returned
UsingBody ==
  /\ At("inflect_using", "start")
  /\ Quiet /\ StepFrame
  /\ IF MappedName(Top.name) \notin DOMAIN Decls(Top.decls) THEN Return(<<>>)
     ELSE LET decl == Decls(Top.decls)[MappedName(Top.name)]
              args == LocalArgs(decl, Top.args)
          IN IF decl.split # <<>> /\ (Top.form # "" \/ "word" \notin DOMAIN args)
             THEN Goto([Top EXCEPT !.pc = "split", !.name = MappedName(Top.name),
                                   !.args = args, !.i = 0, !.results = <<>>])
             ELSE Return(InflectPlain(decl, MappedName(Top.name), args, Top.form,
                                      Top.use_poss, Top.use_clitic))

\* The loop of inflect_using has a span to inflect: it calls inflect_using
SpanInflects ==
  /\ At("inflect_using", "split")
  /\ Top.i < Len(Decls(Top.decls)[Top.name].split)

\* for i in range(0, len(split), 2): the span i is inflected by inflect_using
UsingSpan ==
  /\ At("inflect_using", "split")
  /\ Quiet /\ StepFrame
  /\ LET split == Decls(Top.decls)[Top.name].split
         last_part == (Top.i = Len(split) - 2)
         new_name == SpanName(split, Top.i)
     IN IF ~SpanInflects THEN Return(Top.results)
        ELSE Push([Top EXCEPT !.pc = "combined"],
                  UsingFrame(Top.decls, new_name,
                             SpanArgs(Decls(Top.decls), Top.args, split[Top.i + 1],
                                      IF last_part THEN 100 ELSE split[Top.i + 3],
                                      new_name, last_part),
                             Top.form, last_part /\ Top.use_poss,
                             last_part /\ Top.use_clitic))

\* The results of the span are combined with those of the spans before it
UsingCombined ==
  /\ At("inflect_using", "combined")
  /\ Quiet /\ StepFrame
  /\ IF Top.got = RAISED THEN Return(RAISED)
     ELSE Goto([Top EXCEPT !.pc = "split", !.i = Top.i + 2,
                           !.results = Combine(Top.results, Top.got,
                                               Get(Top.args, "space", <<" ">>))])

StepsNext ==
  \/ Call \/ InflectBody \/ InflectReturn
  \/ VerbalBody \/ VerbalUsed \/ VerbalDecline \/ VerbalDeclined
  \/ NominalBody \/ NominalUsed \/ NominalCompare \/ NominalCompared \/ NominalFinish
  \/ UsingBody \/ UsingSpan \/ UsingCombined

\* The innermost call is about to call a function
Calling ==
  \/ InflectForwards \/ VerbalInflects \/ DeclineInflects \/ NominalInflects \/ CompareInflects
  \/ SpanInflects

\* The call of inflect has a next statement to execute
Runnable ==
  /\ stack # <<>> \/ op = ""
  /\ Calling => Len(stack) < MaxDepth

\* The next statement is executed; within StepsNext these are the steps that
\* count, and such a step exists exactly when Runnable holds
Execute == Runnable /\ steps' = steps + 1

\* A call in progress takes its next step: nothing blocks or suspends it
SpecSteps == StepsInit /\ [][StepsNext]_vars /\ WF_steps(Execute)

\* The call of inflect has returned
InflectReturned == op = "inflect" /\ stack = <<>>

\* The steps and the function agree on what the call returns
StepsAgree ==
  InflectReturned =>
    /\ ret = inflect(call.name, call.args, call.form, call.force_n, {}).ret
    /\ undef_decl_warned = inflect(call.name, call.args, call.form, call.force_n, {}).warned

\* C19: every call of inflect comes to its return: the loop of inflect_using
\* over the spans of a split declension, whose spans name no split
\* declension that leads back to it, and the calls inflect_verbal ->
\* inflect_nominal -> inflect_using end after finitely many steps.
C19_InflectTerminates == <>InflectReturned

\* inflect_using inflects a span of a compound while the split declension,
\* inflect_nominal and inflect wait for it
C19_SpanInProgress ==
  /\ Len(stack) = 4
  /\ stack[1].fn = "inflect" /\ stack[2].fn = "inflect_nominal"
  /\ stack[3].fn = "inflect_using" /\ stack[3].pc = "combined" /\ stack[3].i = 2
  /\ stack[4].fn = "inflect_using" /\ stack[4].name = "fi-decl-koira"
=============================================================================
